---- MODULE Spec2Model ----
(***************************************************************************)
(* Model of the Netcup DNS-01 challenge handler (lib/acme-dns-01-netcup)   *)
(* and of the adapter's DNS propagation polling (main, pollDns01Challenge).*)
(*                                                                         *)
(* Strings that the code splits and joins (host names, zone names) are     *)
(* sequences of one-character strings; opaque tokens are plain strings.    *)
(* One step of the model is the arrival of the answer to the request the   *)
(* code is awaiting, together with everything the code does synchronously  *)
(* until it awaits the next answer.                                        *)
(***************************************************************************)
EXTENDS Integers, Sequences, FiniteSets, TLC

VARIABLES
    op,               \* the operation that was called
    dnsHost,          \* challenge.dnsHost
    dnsAuthorization, \* challenge.dnsAuthorization
    pc,               \* the request the call is awaiting
    apisessionid,     \* session id returned by login
    zi,               \* findZone: loop index i of the probe in flight
    probes,           \* findZone: probed candidates and whether each was accepted
    rootDomain,       \* findZone result: zone
    hostname,         \* findZone result: relative name
    toDelete,         \* remove: the records submitted for deletion
    listing,          \* get, remove: the records the listing returned
    lastAnswer,       \* the latest answer of the remote API: request and class
    apiArgs,          \* apiCall on its own: the answer and throwOnError
    pending,          \* completion of the try block, held while finally runs
    result,           \* what the call returned or raised
    reqs,             \* remote-API requests sent so far
    attempt,          \* polling loop counter
    nsZone,           \* the zone whose nameservers were looked up
    resolver,         \* resolver of the first polling tier
    nsNames,          \* nameserver names still to resolve
    nsIps,            \* nameserver addresses collected
    foundRecords,     \* pollDns01Challenge: records seen on the first tier
    authLookups,      \* TXT lookups issued on the first (authoritative) tier
    pubLookups,       \* TXT lookups issued on the public resolver tier
    authMatchAt,      \* value of authLookups at the first matching answer (0: none)
    pubMatchAt        \* value of pubLookups at the first matching answer (0: none)

\* the adapter's run over the configured collections (main, onReady)
VARIABLES
    config,           \* this.config: useStaging and the collections
    now,              \* Date.now()
    store,            \* certManager: the stored collection of each collection id
    ci,               \* onReady: index of the collection being generated
    rpc,              \* the step the run is at
    events,           \* decisions, orders and store writes of the run, in order
    orders,           \* the answers of acme.certificates.create, in order
    orphans,          \* certManager: stored collections of ids not configured now
    instances,        \* the instance objects of the object store
    stoppedAdapters,  \* this.stoppedAdapters
    donePortCheck     \* this.donePortCheck

\* what the adapter and the handler write to the log at start-up
VARIABLES
    settings,         \* this.config: the value of each key
    savedAccount,     \* the account object stored by an earlier run
    account,          \* this.account: key and full
    challenge,        \* this.challenges['dns-01'] and what its init and shutdown returned
    lpc,              \* the start-up step that logs next
    logged            \* the messages written to the log, in order

\* concurrent calls of set and remove on one handler
VARIABLES
    calls,            \* the locals of each call: op, step, apisessionid, probes
    sessions,         \* the API server: the call each session id was issued to
    wire,             \* the API requests sent so far
    zoneRecords       \* the API server: the records of the zone

\* one challenge from set to remove, with the DNS it is written to
VARIABLES
    zoneTxt,          \* the TXT values of dnsHost in the provider's zone
    publicTxt,        \* the TXT values of dnsHost the public resolver sees
    cycle,            \* where the challenge is: set, polling, confirmed, removed
    cycleAttempt,     \* set: the attempt of the polling loop
    gets              \* the calls of get so far, in order

vars == <<op, dnsHost, dnsAuthorization, pc, apisessionid, zi, probes,
          rootDomain, hostname, toDelete, listing, lastAnswer, apiArgs,
          pending, result, reqs, attempt,
          nsZone, resolver, nsNames, nsIps, foundRecords, authLookups,
          pubLookups, authMatchAt, pubMatchAt,
          config, now, store, ci, rpc, events, orders,
          orphans, instances, stoppedAdapters, donePortCheck,
          settings, savedAccount, account, challenge, lpc, logged,
          calls, sessions, wire, zoneRecords,
          zoneTxt, publicTxt, cycle, cycleAttempt, gets>>

\* one call of the challenge handler (or of findZone, apiCall, the poller)
handlerVars == <<op, dnsHost, dnsAuthorization, pc, apisessionid, zi, probes,
                 rootDomain, hostname, toDelete, listing, lastAnswer, apiArgs,
                 pending, result, reqs, attempt,
                 nsZone, resolver, nsNames, nsIps, foundRecords, authLookups,
                 pubLookups, authMatchAt, pubMatchAt>>

\* the adapter's run, which the challenge handler neither reads nor writes
adapterVars == <<instances, stoppedAdapters, donePortCheck>>
runVars == <<config, now, store, ci, rpc, events, orders, orphans, adapterVars>>
logVars == <<settings, savedAccount, account, challenge, lpc, logged>>
concVars == <<calls, sessions, wire, zoneRecords>>
cycleVars == <<zoneTxt, publicTxt, cycle, cycleAttempt, gets>>
extVars == <<runVars, logVars, concVars, cycleVars>>
nonRunVars == <<handlerVars, logVars, concVars, cycleVars>>
nonLogVars == <<handlerVars, runVars, concVars, cycleVars>>
nonConcVars == <<handlerVars, runVars, logVars, cycleVars>>
nonCycleVars == <<handlerVars, runVars, logVars, concVars>>

\* this.stoppedAdapters when it holds no array (undefined or null); the array
\* it is set to is never empty
NoAdapters == <<>>

\* no run of the adapter is in progress
RunIdle ==
    /\ config = [useStaging |-> FALSE, collections |-> <<>>, http01Active |-> FALSE,
                 host |-> "", bind |-> "", port |-> 0]
    /\ now = 0
    /\ store = <<>>
    /\ ci = 0
    /\ rpc = "idle"
    /\ events = <<>>
    /\ orders = <<>>
    /\ orphans = <<>>
    /\ instances = <<>>
    /\ stoppedAdapters = NoAdapters
    /\ donePortCheck = FALSE
LogIdle ==
    /\ settings = <<>>
    /\ savedAccount = [present |-> FALSE, key |-> ""]
    /\ account = [key |-> "", full |-> ""]
    /\ challenge = [created |-> FALSE, methods |-> {}, returned |-> <<>>]
    /\ lpc = "idle"
    /\ logged = <<>>
ConcIdle ==
    /\ calls = <<>>
    /\ sessions = <<>>
    /\ wire = {}
    /\ zoneRecords = {}
CycleIdle ==
    /\ zoneTxt = {}
    /\ publicTxt = {}
    /\ cycle = "idle"
    /\ cycleAttempt = 0
    /\ gets = <<>>
ExtIdle == RunIdle /\ LogIdle /\ ConcIdle /\ CycleIdle

----------------------------------------------------------------------------
(* Bounds *)

MaxHostLen == 7          \* host names of up to this many characters (findZone)
MaxNs == 4               \* nameserver names returned by the NS lookup

----------------------------------------------------------------------------
(* JavaScript string helpers *)

Dot == "."
Alphabet == {"a", "b"}
Chars == Alphabet \cup {Dot}

RECURSIVE StringsUpTo(_)
StringsUpTo(n) ==
    IF n = 0 THEN {<<>>}
    ELSE LET shorter == StringsUpTo(n - 1)
         IN  shorter \cup {<<c>> \o s : c \in Chars, s \in {t \in shorter : Len(t) = n - 1}}

\* String.prototype.split('.')
RECURSIVE Split(_)
Split(s) ==
    IF s = <<>> THEN << <<>> >>
    ELSE LET rest == Split(Tail(s))
         IN  IF Head(s) = Dot
             THEN << <<>> >> \o rest
             ELSE << <<Head(s)>> \o Head(rest) >> \o Tail(rest)

\* Array.prototype.join('.')
RECURSIVE Join(_)
Join(parts) ==
    IF parts = <<>> THEN <<>>
    ELSE IF Len(parts) = 1 THEN parts[1]
    ELSE parts[1] \o <<Dot>> \o Join(Tail(parts))

\* index normalisation of Array.prototype.slice
SliceIndex(n, k) == IF k < 0 THEN (IF n + k < 0 THEN 0 ELSE n + k)
                    ELSE (IF k > n THEN n ELSE k)

\* Array.prototype.slice(start, end)
Slice(parts, start, end) ==
    SubSeq(parts, SliceIndex(Len(parts), start) + 1, SliceIndex(Len(parts), end))

\* Array.prototype.slice(start)
SliceFrom(parts, start) == Slice(parts, start, Len(parts))

\* s || '@'
OrAt(s) == IF s = <<>> THEN <<"@">> ELSE s

\* Array.prototype.flat() on string[][]
RECURSIVE Flat(_)
Flat(records) ==
    IF records = <<>> THEN <<>> ELSE Head(records) \o Flat(Tail(records))

\* Array.prototype.includes
Includes(arr, v) == \E k \in 1..Len(arr) : arr[k] = v

----------------------------------------------------------------------------
(* Remote API client *)

Undefined == [def |-> FALSE, str |-> <<>>]
Str(s) == [def |-> TRUE, str |-> s]

Null == [type |-> "null"]

\* an error names the request (or loop) that raised it and why
Err(from, why) == [from |-> from, why |-> why]
NoErr == Err("none", "none")

Throw(e) == [kind |-> "throw", err |-> e, value |-> Null]
Value(v) == [kind |-> "value", err |-> NoErr, value |-> v]

StatusCodes == {1999, 2000, 2011, 3000, 5029}

HttpError == [kind |-> "httpError", statuscode |-> 0, responsedata |-> Null]
NonJson == [kind |-> "nonJson", statuscode |-> 0, responsedata |-> Null]

\* the answers the endpoint can give to one request
Responses(dataSet) ==
    {HttpError, NonJson} \cup
    {[kind |-> "json", statuscode |-> c, responsedata |-> d] : c \in StatusCodes, d \in dataSet}

\* the legacy single-success-code test: json.statuscode === 2000
isSuccessLegacy(statuscode) == statuscode = 2000

\* json.statuscode >= 2000 && json.statuscode < 3000
isSuccess(statuscode) == statuscode >= 2000 /\ statuscode < 3000

\* variant of apiCall that raises on every non-success status code
apiCallAlwaysThrows(action, resp, throwOnError) ==
    IF resp.kind = "httpError" THEN Throw(Err(action, "http"))
    ELSE IF resp.kind = "nonJson" THEN Throw(Err(action, "nonjson"))
    ELSE IF ~isSuccess(resp.statuscode) THEN Throw(Err(action, "api"))
    ELSE Value(resp.responsedata)

\* variant of apiCall whose throwOnError flag also covers transport failures
apiCallSwallowsTransport(action, resp, throwOnError) ==
    IF resp.kind \in {"httpError", "nonJson"}
    THEN (IF throwOnError
          THEN Throw(Err(action, IF resp.kind = "httpError" THEN "http" ELSE "nonjson"))
          ELSE Value(Null))
    ELSE IF ~isSuccess(resp.statuscode) /\ throwOnError THEN Throw(Err(action, "api"))
    ELSE IF isSuccess(resp.statuscode) THEN Value(resp.responsedata) ELSE Value(Null)

apiCall(action, resp, throwOnError) ==
    IF resp.kind = "httpError" THEN Throw(Err(action, "http"))
    ELSE IF resp.kind = "nonJson" THEN Throw(Err(action, "nonjson"))
    ELSE IF ~isSuccess(resp.statuscode) /\ throwOnError THEN Throw(Err(action, "api"))
    ELSE IF isSuccess(resp.statuscode) THEN Value(resp.responsedata) ELSE Value(Null)

\* the class of an answer as the endpoint sent it
AnswerClass(resp) ==
    IF resp.kind # "json" THEN resp.kind
    ELSE IF isSuccess(resp.statuscode) THEN "success"
    ELSE "error"

\* the latest answer: the request it answers, its class and, on success, its
\* responsedata
Answered(action, resp) ==
    [action |-> action, class |-> AnswerClass(resp),
     data |-> IF AnswerClass(resp) = "success" THEN resp.responsedata ELSE Null]
NoAnswer == [action |-> "none", class |-> "none", data |-> Null]

\* a request as it is sent: action, session id, zone and record set
Req(action, sid, domain, records) ==
    [action |-> action, sid |-> sid, domainname |-> domain, dnsrecords |-> records]

NoDomain == <<>>
NoSid == "none"

\* responsedata of login: null, an object without a session id, or a session
LoginData == {Null,
              [type |-> "object", apisessionid |-> "undefined"],
              [type |-> "object", apisessionid |-> "s1"],
              [type |-> "object", apisessionid |-> "s2"]}

\* login(): data.apisessionid of the answer, raising what apiCall raises
login(resp) ==
    LET data == apiCall("login", resp, TRUE)
    IN  IF data.kind = "throw" THEN data
        ELSE IF data.value.type = "null" THEN Throw(Err("login", "typeError"))
        ELSE Value(data.value.apisessionid)

----------------------------------------------------------------------------
(* Zone resolver *)

OtherZone == <<"b", "b", Dot, "b">>

\* responsedata of infoDnsZone for a candidate
ZoneData(candidate) ==
    {Null,
     [type |-> "string", name |-> Undefined],
     [type |-> "object", name |-> Undefined],
     [type |-> "object", name |-> Str(<<>>)],
     [type |-> "object", name |-> Str(candidate)],
     [type |-> "object", name |-> Str(OtherZone)]}

\* variant of Accepted without the test of result.name
AcceptedAnyObject(r) ==
    /\ r.type # "null"
    /\ r.type = "object"

\* result !== null && typeof result === 'object' && result.name
Accepted(r) ==
    /\ r.type # "null"
    /\ r.type = "object"
    /\ r.name.def /\ r.name.str # <<>>

\* parts.slice(i).join('.')
Candidate(fullDomain, i) == Join(SliceFrom(Split(fullDomain), i))

\* variant of MoreCandidates that also probes the top label
MoreCandidatesToTop(fullDomain, i) == i < Len(Split(fullDomain))

\* the loop condition i < parts.length - 1
MoreCandidates(fullDomain, i) == i < Len(Split(fullDomain)) - 1

\* variant of ZoneAccepted that drops the label next to the zone
ZoneAcceptedShort(fullDomain, i) ==
    [rootDomain |-> Candidate(fullDomain, i),
     hostname |-> OrAt(Join(Slice(Split(fullDomain), 0, i - 1)))]

\* the pair returned when the probe of candidate i is accepted
ZoneAccepted(fullDomain, i) ==
    [rootDomain |-> Candidate(fullDomain, i),
     hostname |-> OrAt(Join(Slice(Split(fullDomain), 0, i)))]

\* variant of ZoneFallback that keeps the last three labels as the zone
ZoneFallbackThree(fullDomain) ==
    [rootDomain |-> Join(SliceFrom(Split(fullDomain), -3)),
     hostname |-> OrAt(Join(Slice(Split(fullDomain), 0, -3)))]

\* the last-two-labels fallback
ZoneFallback(fullDomain) ==
    [rootDomain |-> Join(SliceFrom(Split(fullDomain), -2)),
     hostname |-> OrAt(Join(Slice(Split(fullDomain), 0, -2)))]

----------------------------------------------------------------------------
(* Challenge handler: state *)

NoCompletion == [kind |-> "none", err |-> NoErr, value |-> Null]
Normal == [kind |-> "normal", err |-> NoErr, value |-> Null]

Tokens == {"tok1", "tok2"}

\* challenge hosts of the handler operations: 2, 3 and 4 labels
OpHosts == {<<"b", Dot, "a">>,
            <<"a", Dot, "b", Dot, "a">>,
            <<"a", Dot, "a", Dot, "b", Dot, "a">>}

HandlerOps == {"set", "setBuild", "get", "getApi", "remove"}

\* no listing yet / the records of the listing
NotListed == [done |-> FALSE, records |-> <<>>]
Listed(records) == [done |-> TRUE, records |-> records]

\* apiCall is not examined on its own
NoArgs == [resp |-> HttpError, throwOnError |-> FALSE]

InitStateOf(ops, hosts, tokens, args) ==
    /\ op \in ops
    /\ dnsHost \in hosts
    /\ dnsAuthorization \in tokens
    /\ pc = "start"
    /\ apisessionid = NoSid
    /\ zi = 0
    /\ probes = <<>>
    /\ rootDomain = <<>>
    /\ hostname = <<>>
    /\ toDelete = <<>>
    /\ listing = NotListed
    /\ lastAnswer = NoAnswer
    /\ apiArgs \in args
    /\ pending = NoCompletion
    /\ result = NoCompletion
    /\ reqs = <<>>
    /\ attempt = 0
    /\ nsZone = <<>>
    /\ resolver = "none"
    /\ nsNames = <<>>
    /\ nsIps = <<>>
    /\ foundRecords = <<>>
    /\ authLookups = 0
    /\ pubLookups = 0
    /\ authMatchAt = 0
    /\ pubMatchAt = 0

\* a call of the handler, of findZone, of apiCall or of pollDns01Challenge
InitState(ops, hosts, tokens, args) ==
    /\ ExtIdle
    /\ InitStateOf(ops, hosts, tokens, args)

\* the state in which a handler, findZone or pollDns01Challenge is called
InitCall(ops, hosts, tokens) == InitState(ops, hosts, tokens, {NoArgs})

zoneVars == <<zi, probes, rootDomain, hostname>>
pollVars == <<attempt, nsZone, resolver, nsNames, nsIps, foundRecords,
              authLookups, pubLookups, authMatchAt, pubMatchAt>>
callVars == <<op, dnsHost, dnsAuthorization, apiArgs>>

----------------------------------------------------------------------------
(* Challenge handler: login, zone discovery, listing, write, logout *)

\* the record set submits
SetRecordDeleting(host, auth) ==
    [id |-> "undefined", hostname |-> host, type |-> "TXT",
     destination |-> auth, deleterecord |-> "true"]

\* set: the one record of dnsrecordset.dnsrecords
SetRecord(host, auth) ==
    [id |-> "undefined", hostname |-> host, type |-> "TXT",
     destination |-> auth, deleterecord |-> "false"]

\* variant of TryExit without the finally clause on a raised error
TryExitNoFinally(p) ==
    /\ pending' = IF op = "getApi" /\ p.kind = "throw" THEN Value(Null) ELSE p
    /\ reqs' = IF p.kind = "throw" THEN reqs
               ELSE Append(reqs, Req("logout", apisessionid, NoDomain, <<>>))
    /\ pc' = "logout"

\* variant of TryExit in which set starts polling without closing the session
TryExitSkipsLogout(p) ==
    /\ pending' = IF op = "getApi" /\ p.kind = "throw" THEN Value(Null) ELSE p
    /\ reqs' = IF op = "set" /\ p.kind = "normal" THEN reqs
               ELSE Append(reqs, Req("logout", apisessionid, NoDomain, <<>>))
    /\ pc' = IF op = "set" /\ p.kind = "normal" THEN "txt" ELSE "logout"

\* leaving the try block with completion p: catch (get only), then finally
TryExit(p) ==
    /\ pending' = IF op = "getApi" /\ p.kind = "throw" THEN Value(Null) ELSE p
    /\ reqs' = Append(reqs, Req("logout", apisessionid, NoDomain, <<>>))
    /\ pc' = "logout"

\* findZone has returned z: the caller sends its next request
ZoneDone(z, sid, pr, i) ==
    /\ rootDomain' = z.rootDomain
    /\ hostname' = z.hostname
    /\ probes' = pr
    /\ zi' = i
    /\ pending' = pending
    /\ IF op = "findZone"
       THEN /\ pc' = "done"
            /\ result' = Value([type |-> "object", rootDomain |-> z.rootDomain,
                                hostname |-> z.hostname])
            /\ reqs' = reqs
       ELSE IF op \in {"set", "setBuild"}
       THEN /\ pc' = "write"
            /\ result' = result
            /\ reqs' = Append(reqs, Req("updateDnsRecords", sid, z.rootDomain,
                                        <<SetRecord(z.hostname, dnsAuthorization)>>))
       ELSE /\ pc' = "list"
            /\ result' = result
            /\ reqs' = Append(reqs, Req("infoDnsRecords", sid, z.rootDomain, <<>>))

\* findZone: the loop of findZone at index i
findZone(i, sid, pr) ==
    IF MoreCandidates(dnsHost, i)
    THEN /\ pc' = "probe"
         /\ zi' = i
         /\ probes' = pr
         /\ reqs' = Append(reqs, Req("infoDnsZone", sid, Candidate(dnsHost, i), <<>>))
         /\ UNCHANGED <<rootDomain, hostname, pending, result>>
    ELSE ZoneDone(ZoneFallback(dnsHost), sid, pr, i)

\* set, get (provider variant), remove are called: the login request is sent
Call ==
    /\ pc = "start"
    /\ op \in {"set", "setBuild", "getApi", "remove"}
    /\ reqs' = Append(reqs, Req("login", NoSid, NoDomain, <<>>))
    /\ pc' = "login"
    /\ UNCHANGED <<extVars, callVars, lastAnswer, apisessionid, zoneVars, toDelete, listing,
                   pending, result, pollVars>>

\* variant of LoginFailed with login inside the try block: finally runs
LoginFailedInsideTry(e) ==
    /\ pending' = e
    /\ reqs' = Append(reqs, Req("logout", apisessionid, NoDomain, <<>>))
    /\ pc' = "logout"
    /\ UNCHANGED <<apisessionid, zoneVars, result>>

\* login raised e: set logs and rethrows, get and remove let it pass
LoginFailed(e) ==
    /\ result' = e
    /\ pc' = "done"
    /\ UNCHANGED <<apisessionid, zoneVars, pending, reqs>>

\* the login answer arrives
LoginResp ==
    /\ pc = "login"
    /\ \E resp \in Responses(LoginData) :
         LET r == login(resp)
         IN  /\ lastAnswer' = Answered("login", resp)
             /\ IF r.kind = "throw"
                THEN LoginFailed(r)
                ELSE /\ apisessionid' = r.value
                     /\ findZone(1, r.value, <<>>)
    /\ UNCHANGED <<extVars, callVars, toDelete, listing, pollVars>>

\* the answer to an infoDnsZone probe arrives
ZoneProbe ==
    /\ pc = "probe"
    /\ LET candidate == Candidate(dnsHost, zi)
       IN  \E resp \in Responses(ZoneData(candidate)) :
             LET r == apiCall("infoDnsZone", resp, FALSE)
             IN  /\ lastAnswer' = Answered("infoDnsZone", resp)
                 /\ IF r.kind = "throw"
                    THEN /\ probes' = Append(probes, [candidate |-> candidate, accepted |-> FALSE])
                         /\ UNCHANGED <<zi, rootDomain, hostname>>
                         /\ IF op = "findZone"
                            THEN /\ result' = r
                                 /\ pc' = "done"
                                 /\ UNCHANGED <<pending, reqs>>
                            ELSE /\ TryExit(r)
                                 /\ result' = result
                    ELSE IF Accepted(r.value)
                    THEN ZoneDone(ZoneAccepted(dnsHost, zi), apisessionid,
                                  Append(probes, [candidate |-> candidate, accepted |-> TRUE]), zi)
                    ELSE findZone(zi + 1, apisessionid,
                                  Append(probes, [candidate |-> candidate, accepted |-> FALSE]))
    /\ UNCHANGED <<extVars, callVars, apisessionid, toDelete, listing, pollVars>>

\* records a listing can hold for a challenge at relative name host
ListedRecord(i, host, t, dest) ==
    [id |-> i, hostname |-> host, type |-> t, destination |-> dest,
     deleterecord |-> "undefined"]

RecordLists(host, auth) ==
    LET match1 == ListedRecord("1", host, "TXT", auth)
        match2 == ListedRecord("4", host, "TXT", auth)
        otherValue == ListedRecord("2", host, "TXT", "stale")
        otherType == ListedRecord("3", host, "A", auth)
        otherHost == ListedRecord("5", <<"w", "w", "w">>, "TXT", auth)
    IN  {<<>>, <<match1>>, <<otherValue, otherType, otherHost>>,
         <<otherValue, match1, otherType, match2, otherHost>>}

\* responsedata of infoDnsRecords
RecordsData(host, auth) ==
    {Null, [type |-> "object", hasRecords |-> FALSE, dnsrecords |-> <<>>]} \cup
    {[type |-> "object", hasRecords |-> TRUE, dnsrecords |-> l] : l \in RecordLists(host, auth)}

\* recordsData?.dnsrecords ?? []
RecordsOf(recordsData) ==
    IF recordsData.type = "null" THEN <<>>
    ELSE IF ~recordsData.hasRecords THEN <<>>
    ELSE recordsData.dnsrecords

\* variant of Matches that takes every record at the name
MatchesWholeName(r, host, auth) ==
    r.hostname = host

\* variant of Matches without the comparison of the value
MatchesAnyValue(r, host, auth) ==
    r.type = "TXT" /\ r.hostname = host

\* r.type === 'TXT' && r.hostname === hostname && r.destination === dnsAuthorization
Matches(r, host, auth) ==
    r.type = "TXT" /\ r.hostname = host /\ r.destination = auth

\* records.filter(...).map(r => ({ ...r, deleterecord: true }))
RECURSIVE ToDelete(_, _, _)
ToDelete(records, host, auth) ==
    IF records = <<>> THEN <<>>
    ELSE LET r == Head(records)
             rest == ToDelete(Tail(records), host, auth)
         IN  IF Matches(r, host, auth)
             THEN <<[r EXCEPT !.deleterecord = "true"]>> \o rest
             ELSE rest

\* records.find(...) of get: { dnsAuthorization: found.destination } or null
RECURSIVE Found(_, _, _)
Found(records, host, auth) ==
    IF records = <<>> THEN Null
    ELSE IF Matches(Head(records), host, auth)
    THEN [type |-> "object", dnsAuthorization |-> Head(records).destination]
    ELSE Found(Tail(records), host, auth)

\* variant of NothingToDelete: the update is submitted whatever was selected
NothingToDeleteNever(del) == FALSE

\* toDelete.length === 0
NothingToDelete(del) == Len(del) = 0

\* the answer to infoDnsRecords arrives (get of the provider variant, remove)
ListResp ==
    /\ pc = "list"
    /\ \E resp \in Responses(RecordsData(hostname, dnsAuthorization)) :
         LET r == apiCall("infoDnsRecords", resp, FALSE)
         IN  /\ lastAnswer' = Answered("infoDnsRecords", resp)
             /\ IF r.kind = "throw"
                THEN /\ TryExit(r)
                     /\ UNCHANGED <<toDelete, listing>>
                ELSE LET records == RecordsOf(r.value)
                     IN  /\ listing' = Listed(records)
                         /\ IF op = "getApi"
                            THEN /\ TryExit(Value(Found(records, hostname, dnsAuthorization)))
                                 /\ toDelete' = toDelete
                            ELSE LET del == ToDelete(records, hostname, dnsAuthorization)
                                 IN  /\ toDelete' = del
                                     /\ IF NothingToDelete(del)
                                        THEN TryExit(Value(Null))
                                        ELSE /\ pc' = "write"
                                             /\ pending' = pending
                                             /\ reqs' = Append(reqs, Req("updateDnsRecords",
                                                           apisessionid, rootDomain, del))
    /\ UNCHANGED <<extVars, callVars, apisessionid, zoneVars, result, pollVars>>

\* the answer to updateDnsRecords arrives (set, remove)
WriteResp ==
    /\ pc = "write"
    /\ \E resp \in Responses({Null, [type |-> "object"]}) :
         LET r == apiCall("updateDnsRecords", resp, TRUE)
         IN  /\ lastAnswer' = Answered("updateDnsRecords", resp)
             /\ IF r.kind = "throw" THEN TryExit(r) ELSE TryExit(Normal)
    /\ UNCHANGED <<extVars, callVars, apisessionid, zoneVars, toDelete, listing, result, pollVars>>

----------------------------------------------------------------------------
(* DNS answers and the polling loops *)

\* attempt caps of the polling loops
SetMaxAttempts == 30
SetBuildMaxAttempts == 120
maxAttempts == 120

\* variant of maxPublicAttempts: what is left of one shared budget of 120
maxPublicAttemptsShared == 120 - authLookups

maxPublicAttempts == 60

\* what resolveTxt can answer: a failure, or a list of TXT records (chunk lists)
TxtRecordSets(auth) ==
    {<<>>, << <<auth>> >>, << <<"stale">> >>, << <<"stale">>, <<auth>> >>}

TxtAnswers(auth) ==
    {[ok |-> FALSE, records |-> <<>>]} \cup
    {[ok |-> TRUE, records |-> r] : r \in TxtRecordSets(auth)}

\* records.flat().includes(expectedValue)
HasValue(records, expectedValue) == Includes(Flat(records), expectedValue)

\* first-match bookkeeping of a tier
MatchAt(old, count, ans, expectedValue) ==
    IF old = 0 /\ ans.ok /\ HasValue(ans.records, expectedValue) THEN count ELSE old

\* set: the test guarding "DNS record confirmed ... return null" (a bare block)
SetConfirmed(results, auth) == TRUE

\* variant of SetBuildConfirmed that never confirms
SetBuildNeverConfirmed(results, auth) == FALSE

\* set (build variant): const found = results.flat().includes(dnsAuthorization)
SetBuildConfirmed(results, auth) == HasValue(results, auth)

\* the first polling tier starts: first TXT lookup on the chosen resolver
StartAuthPoll ==
    /\ attempt' = 1
    /\ authLookups' = authLookups + 1
    /\ pc' = "txtAuth"

\* variant of logout that lets the error of the request escape
logoutRaising(resp) == apiCall("logout", resp, TRUE)

\* variant of logout that swallows error status codes only
logoutRaisingOnTransport(resp) ==
    LET r == apiCall("logout", resp, TRUE)
    IN  IF r.kind = "throw" /\ r.err.why # "api" THEN r ELSE Value(Null)

\* logout(): the answer is awaited, nothing is raised whatever it is
logout(resp) ==
    LET r == apiCall("logout", resp, TRUE)
    IN  IF r.kind = "throw" THEN Value(Null) ELSE Value(Null)

\* the logout answer arrives: finally ends and the held completion takes effect
LogoutResp ==
    /\ pc = "logout"
    /\ \E resp \in Responses({Null}) :
         LET r == logout(resp)
         IN  /\ lastAnswer' = Answered("logout", resp)
             /\ IF r.kind = "throw"
                THEN /\ result' = r
                     /\ pc' = "done"
                     /\ UNCHANGED pollVars
                ELSE IF pending.kind \in {"throw", "value"}
                THEN /\ result' = pending
                     /\ pc' = "done"
                     /\ UNCHANGED pollVars
                ELSE IF op = "remove"
                THEN /\ result' = Value(Null)
                     /\ pc' = "done"
                     /\ UNCHANGED pollVars
                ELSE IF op = "set"
                THEN /\ result' = result
                     /\ attempt' = 1
                     /\ pubLookups' = pubLookups + 1
                     /\ pc' = "txt"
                     /\ UNCHANGED <<nsZone, resolver, nsNames, nsIps, foundRecords,
                                    authLookups, authMatchAt, pubMatchAt>>
                ELSE /\ result' = result
                     /\ nsZone' = rootDomain
                     /\ pc' = "ns"
                     /\ UNCHANGED <<attempt, resolver, nsNames, nsIps, foundRecords,
                                    authLookups, pubLookups, authMatchAt, pubMatchAt>>
    /\ UNCHANGED <<extVars, callVars, apisessionid, zoneVars, toDelete, listing, pending, reqs>>

\* set: the answer to a TXT lookup on the public resolvers arrives
SetTxtResp ==
    /\ pc = "txt"
    /\ op = "set"
    /\ \E ans \in TxtAnswers(dnsAuthorization) :
         /\ pubMatchAt' = MatchAt(pubMatchAt, pubLookups, ans, dnsAuthorization)
         /\ IF ans.ok /\ SetConfirmed(ans.records, dnsAuthorization)
            THEN /\ result' = Value(Null)
                 /\ pc' = "done"
                 /\ UNCHANGED <<attempt, pubLookups>>
            ELSE IF attempt + 1 <= SetMaxAttempts
            THEN /\ attempt' = attempt + 1
                 /\ pubLookups' = pubLookups + 1
                 /\ UNCHANGED <<pc, result>>
            ELSE /\ attempt' = attempt + 1
                 /\ result' = Throw(Err("poll", "timeout"))
                 /\ pc' = "done"
                 /\ UNCHANGED pubLookups
    /\ UNCHANGED <<extVars, callVars, lastAnswer, apisessionid, zoneVars, toDelete, listing,
                   pending, reqs, nsZone,
                   resolver, nsNames, nsIps, foundRecords, authLookups, authMatchAt>>

\* set (build variant): the answer to a TXT lookup on the zone's nameservers
SetBuildTxtResp ==
    /\ pc = "txtAuth"
    /\ op = "setBuild"
    /\ \E ans \in TxtAnswers(dnsAuthorization) :
         /\ authMatchAt' = MatchAt(authMatchAt, authLookups, ans, dnsAuthorization)
         /\ IF ans.ok /\ SetBuildConfirmed(ans.records, dnsAuthorization)
            THEN /\ result' = Value(Null)
                 /\ pc' = "done"
                 /\ UNCHANGED <<attempt, authLookups>>
            ELSE IF attempt + 1 <= SetBuildMaxAttempts
            THEN /\ attempt' = attempt + 1
                 /\ authLookups' = authLookups + 1
                 /\ UNCHANGED <<pc, result>>
            ELSE /\ attempt' = attempt + 1
                 /\ result' = Throw(Err("poll", "timeout"))
                 /\ pc' = "done"
                 /\ UNCHANGED authLookups
    /\ UNCHANGED <<extVars, callVars, lastAnswer, apisessionid, zoneVars, toDelete, listing,
                   pending, reqs, nsZone,
                   resolver, nsNames, nsIps, foundRecords, pubLookups, pubMatchAt>>

\* get is called: one TXT lookup on the public resolvers
GetCall ==
    /\ pc = "start"
    /\ op = "get"
    /\ pubLookups' = pubLookups + 1
    /\ pc' = "txt"
    /\ UNCHANGED <<extVars, callVars, lastAnswer, apisessionid, zoneVars, toDelete, listing,
                   pending, result, reqs,
                   attempt, nsZone, resolver, nsNames, nsIps, foundRecords,
                   authLookups, authMatchAt, pubMatchAt>>

\* variant of GetResult without the catch around the lookup
GetResultNoCatch(ans, auth) ==
    IF ~ans.ok THEN Throw(Err("resolveTxt", "dns"))
    ELSE IF HasValue(ans.records, auth)
    THEN Value([type |-> "object", dnsAuthorization |-> auth])
    ELSE Value(Null)

\* get: found ? { dnsAuthorization } : null, and null when the lookup raised
GetResult(ans, auth) ==
    IF ans.ok /\ HasValue(ans.records, auth)
    THEN Value([type |-> "object", dnsAuthorization |-> auth])
    ELSE Value(Null)

\* get: the answer arrives
GetTxtResp ==
    /\ pc = "txt"
    /\ op = "get"
    /\ \E ans \in TxtAnswers(dnsAuthorization) :
         /\ pubMatchAt' = MatchAt(pubMatchAt, pubLookups, ans, dnsAuthorization)
         /\ result' = GetResult(ans, dnsAuthorization)
         /\ pc' = "done"
    /\ UNCHANGED <<extVars, callVars, lastAnswer, apisessionid, zoneVars, toDelete, listing,
                   pending, reqs,
                   attempt, nsZone, resolver, nsNames, nsIps, foundRecords,
                   authLookups, pubLookups, authMatchAt>>

----------------------------------------------------------------------------
(* Resolver of the zone's nameservers *)

AllNsNames == <<"ns1", "ns2", "ns3", "ns4", "ns5", "ns6">>

\* what resolveNs can answer: a failure or a list of nameserver names
NsAnswers ==
    {[ok |-> FALSE, names |-> <<>>]} \cup
    {[ok |-> TRUE, names |-> SubSeq(AllNsNames, 1, k)] : k \in 0..MaxNs}

\* the nameservers whose address is looked up
NsUsed(names) == IF op = "poll" THEN Slice(names, 0, 3) ELSE names

\* the resolver chosen once the addresses are collected
ResolverFor(ips) == IF Len(ips) > 0 THEN "auth" ELSE "public"

\* the answer to the NS lookup arrives
NsResp ==
    /\ pc = "ns"
    /\ \E ans \in NsAnswers :
         IF ~ans.ok \/ NsUsed(ans.names) = <<>>
         THEN /\ resolver' = "public"
              /\ StartAuthPoll
              /\ UNCHANGED nsNames
         ELSE /\ nsNames' = NsUsed(ans.names)
              /\ pc' = "ns4"
              /\ UNCHANGED <<resolver, attempt, authLookups>>
    /\ UNCHANGED <<extVars, callVars, lastAnswer, apisessionid, zoneVars, toDelete, listing,
                   pending, result, reqs,
                   nsZone, nsIps, foundRecords, pubLookups, authMatchAt, pubMatchAt>>

\* variant of Collect in which a failed address lookup discards the addresses
CollectOrDiscard(ips, ok, ns) == IF ok THEN Append(ips, ns) ELSE <<>>

\* nsIps.push(...addrs) inside try, with the catch that skips the nameserver
Collect(ips, ok, ns) == IF ok THEN Append(ips, ns) ELSE ips

\* the answer to the address lookup of one nameserver arrives
Ns4Resp ==
    /\ pc = "ns4"
    /\ \E ok \in BOOLEAN :
         LET ips == Collect(nsIps, ok, Head(nsNames))
         IN  /\ nsIps' = ips
             /\ nsNames' = Tail(nsNames)
             /\ IF Tail(nsNames) = <<>>
                THEN /\ resolver' = ResolverFor(ips)
                     /\ StartAuthPoll
                ELSE UNCHANGED <<resolver, attempt, authLookups, pc>>
    /\ UNCHANGED <<extVars, callVars, lastAnswer, apisessionid, zoneVars, toDelete, listing,
                   pending, result, reqs,
                   nsZone, foundRecords, pubLookups, authMatchAt, pubMatchAt>>

----------------------------------------------------------------------------
(* Adapter: pollDns01Challenge *)

PollHosts == {<<"a", Dot, "a", Dot, "b", Dot, "b">>}

\* labels.slice(-2).join('.')
PollZone(host) == Join(SliceFrom(Split(host), -2))

\* pollDns01Challenge is called: the NS lookup of the zone is issued
PollCall ==
    /\ pc = "start"
    /\ op = "poll"
    /\ nsZone' = PollZone(dnsHost)
    /\ pc' = "ns"
    /\ UNCHANGED <<extVars, callVars, lastAnswer, apisessionid, zoneVars, toDelete, listing,
                   pending, result, reqs,
                   attempt, resolver, nsNames, nsIps, foundRecords, authLookups,
                   pubLookups, authMatchAt, pubMatchAt>>

\* the value returned: { answer: records.map(rr => ({ data: rr })) }
Answer(records) == [type |-> "object", answer |-> [k \in 1..Len(records) |-> [data |-> records[k]]]]

\* after the first loop: if (foundRecords.length === 0) throw
AuthTierFailed(found) == Len(found) = 0

\* first tier: the answer to a TXT lookup on the chosen resolver arrives
PollAuthTxtResp ==
    /\ pc = "txtAuth"
    /\ op = "poll"
    /\ \E ans \in TxtAnswers(dnsAuthorization) :
         /\ authMatchAt' = MatchAt(authMatchAt, authLookups, ans, dnsAuthorization)
         /\ IF ans.ok /\ HasValue(ans.records, dnsAuthorization)
            THEN /\ foundRecords' = ans.records
                 /\ UNCHANGED authLookups
                 /\ IF AuthTierFailed(ans.records)
                    THEN /\ result' = Throw(Err("poll", "timeout"))
                         /\ pc' = "done"
                         /\ UNCHANGED <<attempt, pubLookups>>
                    ELSE /\ attempt' = 1
                         /\ pubLookups' = pubLookups + 1
                         /\ pc' = "txtPub"
                         /\ result' = result
            ELSE IF attempt + 1 <= maxAttempts
            THEN /\ attempt' = attempt + 1
                 /\ authLookups' = authLookups + 1
                 /\ UNCHANGED <<pc, result, foundRecords, pubLookups>>
            ELSE /\ attempt' = attempt + 1
                 /\ UNCHANGED <<foundRecords, authLookups>>
                 /\ IF AuthTierFailed(foundRecords)
                    THEN /\ result' = Throw(Err("poll", "timeout"))
                         /\ pc' = "done"
                         /\ UNCHANGED pubLookups
                    ELSE /\ attempt' = 1
                         /\ pubLookups' = pubLookups + 1
                         /\ pc' = "txtPub"
                         /\ result' = result
    /\ UNCHANGED <<extVars, callVars, lastAnswer, apisessionid, zoneVars, toDelete, listing,
                   pending, reqs, nsZone,
                   resolver, nsNames, nsIps, pubMatchAt>>

\* variant of PublicTimeout that raises
PublicTimeoutRaises(found) == Throw(Err("poll", "timeout"))

\* what is returned when the public tier used up its attempts
PublicTimeout(found) == Value(Answer(found))

\* public tier: the answer to a TXT lookup on the public resolvers arrives
PollPubTxtResp ==
    /\ pc = "txtPub"
    /\ op = "poll"
    /\ \E ans \in TxtAnswers(dnsAuthorization) :
         /\ pubMatchAt' = MatchAt(pubMatchAt, pubLookups, ans, dnsAuthorization)
         /\ IF ans.ok /\ HasValue(ans.records, dnsAuthorization)
            THEN /\ result' = Value(Answer(ans.records))
                 /\ pc' = "done"
                 /\ UNCHANGED <<attempt, pubLookups>>
            ELSE IF attempt + 1 <= maxPublicAttempts
            THEN /\ attempt' = attempt + 1
                 /\ pubLookups' = pubLookups + 1
                 /\ UNCHANGED <<pc, result>>
            ELSE /\ attempt' = attempt + 1
                 /\ result' = PublicTimeout(foundRecords)
                 /\ pc' = "done"
                 /\ UNCHANGED pubLookups
    /\ UNCHANGED <<extVars, callVars, lastAnswer, apisessionid, zoneVars, toDelete, listing,
                   pending, reqs, nsZone,
                   resolver, nsNames, nsIps, foundRecords, authLookups, authMatchAt>>

----------------------------------------------------------------------------
(* Zone resolver on its own: findZone for every host name up to MaxHostLen *)

\* findZone is called with an open session: the first probe is sent
FindZoneCall ==
    /\ pc = "start"
    /\ op = "findZone"
    /\ \E sid \in {"s1"} :
         /\ apisessionid' = sid
         /\ findZone(1, sid, <<>>)
    /\ UNCHANGED <<extVars, callVars, lastAnswer, toDelete, listing, pollVars>>

InitZone == InitCall({"findZone"}, StringsUpTo(MaxHostLen), {"tok1"})

NextZone ==
    \/ FindZoneCall
    \/ ZoneProbe

SpecZone == InitZone /\ [][NextZone]_vars

----------------------------------------------------------------------------
(* Challenge handler operations and the adapter's polling *)


\* apiCall alone: one call with each answer the endpoint can give
MaxStatusCode == 5029
ApiData == {Null, [type |-> "object", name |-> Str(<<"a", Dot, "b">>)]}
ApiResponses ==
    {HttpError, NonJson} \cup
    {[kind |-> "json", statuscode |-> c, responsedata |-> d] :
        c \in 0..MaxStatusCode, d \in ApiData}

ApiCall ==
    /\ pc = "start"
    /\ op = "apiCall"
    /\ result' = apiCall("call", apiArgs.resp, apiArgs.throwOnError)
    /\ lastAnswer' = Answered("call", apiArgs.resp)
    /\ pc' = "done"
    /\ UNCHANGED <<extVars, callVars, apisessionid, zoneVars, toDelete, listing, pending,
                   reqs, pollVars>>

InitApi ==
    InitState({"apiCall"}, {<<"b", Dot, "a">>}, {"tok1"},
              [resp : ApiResponses, throwOnError : BOOLEAN])
NextApi == ApiCall
SpecApi == InitApi /\ [][NextApi]_vars


\* apiCall alone, and remove with the calls it makes
InitClient == InitApi \/ InitCall({"remove"}, OpHosts, Tokens)
NextClient ==
    \/ ApiCall
    \/ Call
    \/ LoginResp
    \/ ZoneProbe
    \/ ListResp
    \/ WriteResp
    \/ LogoutResp
SpecClient == InitClient /\ [][NextClient]_vars


----------------------------------------------------------------------------
(* Adapter: the renewal decision of generateCollection *)

Comma == ","
Space == " "

\* String.prototype.split(sep)
RECURSIVE SplitOn(_, _)
SplitOn(s, sep) ==
    IF s = <<>> THEN << <<>> >>
    ELSE LET rest == SplitOn(Tail(s), sep)
         IN  IF Head(s) = sep
             THEN << <<>> >> \o rest
             ELSE << <<Head(s)>> \o Head(rest) >> \o Tail(rest)

\* String.prototype.trim()
RECURSIVE TrimStart(_)
TrimStart(s) ==
    IF s # <<>> /\ Head(s) = Space THEN TrimStart(Tail(s)) ELSE s

RECURSIVE TrimEnd(_)
TrimEnd(s) ==
    IF s # <<>> /\ s[Len(s)] = Space THEN TrimEnd(SubSeq(s, 1, Len(s) - 1)) ELSE s

Trim(s) == TrimEnd(TrimStart(s))

\* String.prototype.replace(/\s/g, '')
RemoveSpace(s) == SelectSeq(s, LAMBDA c : c # Space)

\* Array.prototype.map(d => d.trim())
MapTrim(arr) == [k \in 1..Len(arr) |-> Trim(arr[k])]

\* Array.prototype.filter(n => n)
NonEmpty(arr) == SelectSeq(arr, LAMBDA n : n # <<>>)

\* the domains generateCollection derives from commonName and altNames
Domains(collection) ==
    LET fromCommonName == NonEmpty(MapTrim(SplitOn(collection.commonName, Comma)))
    IN  IF collection.altNames # <<>>
        THEN fromCommonName \o NonEmpty(SplitOn(RemoveSpace(collection.altNames), Comma))
        ELSE fromCommonName

\* UTF-16 code unit of a character
CharCode(c) ==
    CASE c = Space -> 32
      [] c = Comma -> 44
      [] c = Dot -> 46
      [] c = "a" -> 97
      [] c = "b" -> 98

\* the default order of Array.prototype.sort on strings
RECURSIVE Before(_, _)
Before(s, t) ==
    IF t = <<>> THEN FALSE
    ELSE IF s = <<>> THEN TRUE
    ELSE IF Head(s) # Head(t) THEN CharCode(Head(s)) < CharCode(Head(t))
    ELSE Before(Tail(s), Tail(t))

RECURSIVE InsertSorted(_, _)
InsertSorted(x, sorted) ==
    IF sorted = <<>> THEN <<x>>
    ELSE IF Before(x, Head(sorted)) THEN <<x>> \o sorted
    ELSE <<Head(sorted)>> \o InsertSorted(x, Tail(sorted))

\* [...arr].sort()
RECURSIVE Sorted(_)
Sorted(arr) ==
    IF arr = <<>> THEN <<>> ELSE InsertSorted(Head(arr), Sorted(Tail(arr)))

\* an array, or a value that is not an array (undefined)
Arr(items) == [isArray |-> TRUE, items |-> items]
NotAnArray == [isArray |-> FALSE, items |-> <<>>]

\* _arraysMatch(arr1, arr2)
_arraysMatch(arr1, arr2) ==
    IF ~arr1.isArray \/ ~arr2.isArray THEN FALSE
    ELSE IF Len(arr1.items) # Len(arr2.items) THEN FALSE
    ELSE LET sorted1 == Sorted(arr1.items)
             sorted2 == Sorted(arr2.items)
         IN  \A idx \in 1..Len(sorted1) : sorted1[idx] = sorted2[idx]

\* Renew 7 days before expiry
renewWindow == 60 * 60 * 24 * 7 * 1000

\* a date string and what Date.parse makes of it (NaN when it is not valid)
DateAt(t) == [valid |-> TRUE, time |-> t]
InvalidDate == [valid |-> FALSE, time |-> 0]

\* Date.now() > Date.parse(crt.notAfter) - renewWindow: false on NaN
ExpiringSoon(t, notAfter) ==
    IF ~notAfter.valid THEN FALSE ELSE t > notAfter.time - renewWindow

\* what x509.parseCert makes of a stored certificate
Cert(parses, notAfter, commonName, altNames) ==
    [parses |-> parses, notAfter |-> notAfter, commonName |-> commonName,
     altNames |-> altNames]
BrokenCert == Cert(FALSE, InvalidDate, <<>>, NotAnArray)

\* this.namespace and the id of our instance object
namespace == "acme.0"
us == "system.adapter.acme.0"

\* what certManager.getCollection returns; tsExpires of a collection is the
\* parsed expiry of its certificate
NoCollection == [present |-> FALSE, from |-> "", staging |-> FALSE, cert |-> BrokenCert]
CollectionFrom(from, staging, cert) ==
    [present |-> TRUE, from |-> from, staging |-> staging, cert |-> cert]
Collection(staging, cert) == CollectionFrom(namespace, staging, cert)

\* generateCollection: the value of create after the checks of the existing
\* collection
create(collection, existingCollection, useStaging, t) ==
    IF ~existingCollection.present THEN TRUE
    ELSE LET crt == existingCollection.cert
         IN  IF ~crt.parses THEN TRUE
             ELSE IF ExpiringSoon(t, crt.notAfter) THEN TRUE
             ELSE IF collection.commonName # crt.commonName THEN TRUE
             ELSE IF ~_arraysMatch(Arr(Domains(collection)), crt.altNames) THEN TRUE
             ELSE IF useStaging # existingCollection.staging THEN TRUE
             ELSE FALSE


----------------------------------------------------------------------------
(* Adapter: onReady's loop over the collections and generateCollection *)

MaxAltNames == 3
MaxCollections == 3

RECURSIVE SeqsUpTo(_, _)
SeqsUpTo(S, n) ==
    IF n = 0 THEN {<<>>}
    ELSE LET shorter == SeqsUpTo(S, n - 1)
         IN  shorter \cup {<<x>> \o t : x \in S, t \in {u \in shorter : Len(u) = n - 1}}

\* configured commonName and altNames of a collection
ConfigCommonNames ==
    {<<"a">>, <<"b">>, <<Space, "a">>, <<"a", Comma, "b">>, <<>>}
ConfigAltNames ==
    {<<>>, <<"b">>, <<"a", Comma, "b">>, <<"b", Comma, Space, "a">>, <<"b", Comma, "b">>}

\* names a certificate can carry
CertNames == {<<"a">>, <<"b">>}

Clock == {1000}

\* expiry dates of a certificate, as seen at time t
ExpiryDates(t) ==
    {InvalidDate} \cup
    {DateAt(t + d) : d \in {0 - 1, renewWindow - 1, renewWindow, renewWindow + 1}}

\* certificates that parse
ParsedCerts(t) ==
    {Cert(TRUE, e, cn, an) :
        e \in ExpiryDates(t), cn \in CertNames,
        an \in {NotAnArray} \cup {Arr(l) : l \in SeqsUpTo(CertNames, MaxAltNames)}}

\* what the store can hold for a collection id
StoredCollections(t) ==
    {NoCollection} \cup
    {Collection(st, c) : st \in BOOLEAN, c \in {BrokenCert} \cup ParsedCerts(t)}

CollectionIds == <<"c1", "c2", "c3", "c4", "c5">>
CollectionConfig(id, commonName, altNames) ==
    [id |-> id, commonName |-> commonName, altNames |-> altNames]

\* a certificate for the name a, good for long, and one about to expire
GoodCert(t) == Cert(TRUE, DateAt(t + renewWindow + 1), <<"a">>, Arr(<< <<"a">> >>))
DueCert(t) == Cert(TRUE, DateAt(t + renewWindow - 1), <<"a">>, Arr(<< <<"a">> >>))

Event(kind, id, decision) == [kind |-> kind, id |-> id, create |-> decision]

\* the run is at the head of the loop with index i
LoopAt(i) ==
    IF i > Len(config.collections)
    THEN /\ rpc' = "done"
         /\ ci' = i
    ELSE /\ rpc' = "read"
         /\ ci' = i

\* an error leaves generateCollection: the catch of onReady ends the loop
LoopAborted(id) ==
    /\ rpc' = "done"
    /\ ci' = ci
    /\ events' = Append(events, Event("aborted", id, FALSE))

\* an operation on the object store raised inside stopAdaptersOnSamePort
ObjectOpRaised(log, id) ==
    /\ rpc' = "done"
    /\ ci' = ci
    /\ events' = log \o <<Event("objectError", id, TRUE), Event("aborted", id, TRUE)>>

\* onReady: initAcme has answered; the loop over the collections starts
OnReady ==
    /\ rpc = "start"
    /\ \E initialised \in BOOLEAN :
         IF initialised
         THEN /\ LoopAt(1)
              /\ events' = events
         ELSE LoopAborted("none")
    /\ UNCHANGED <<nonRunVars, config, now, store, orders, orphans, adapterVars>>

\* how key and CSR generation and the account test before the order end
Preparations == {"ready", "raised", "uninitialised"}

\* generateCollection after stopAdaptersOnSamePort: key and CSR are made, the
\* account is tested and the order is started
Prepare(decided, collection) ==
    \E prepared \in Preparations :
      CASE prepared = "ready" ->
             /\ rpc' = "order"
             /\ ci' = ci
             /\ events' = Append(decided, Event("order", collection.id, TRUE))
        [] prepared = "raised" ->
             /\ rpc' = "done"
             /\ ci' = ci
             /\ events' = Append(decided, Event("aborted", collection.id, TRUE))
        [] prepared = "uninitialised" ->
             /\ LoopAt(ci + 1)
             /\ events' = Append(decided, Event("uninitialised", collection.id, TRUE))

\* generateCollection: getCollection has answered; the decision is taken and,
\* on create, the adapters on our port are looked up if that is still to do;
\* otherwise key and CSR are made and the order is started
GenerateCollection ==
    /\ rpc = "read"
    /\ LET collection == config.collections[ci]
           existingCollection == store[ci]
           decision == create(collection, existingCollection, config.useStaging, now)
           decided == Append(events, Event("decide", collection.id, decision))
       IN  IF ~decision
           THEN /\ LoopAt(ci + 1)
                /\ events' = decided
           ELSE IF config.http01Active /\ ~donePortCheck
           THEN /\ rpc' = "stop"
                /\ ci' = ci
                /\ events' = decided
           ELSE Prepare(decided, collection)
    /\ UNCHANGED <<nonRunVars, config, now, store, orders, orphans, adapterVars>>

\* bind addresses: String.includes('.') and String.includes(':')
V4Binds == {"0.0.0.0", "10.0.0.1"}
V6Binds == {"::", "fe80::1"}
NoBind == "none"

\* stopAdaptersOnSamePort: the test of the bind address of an instance
\* against ours
BindsOverlap(theirs, bind) ==
    \/ theirs = bind
    \/ (bind \in V4Binds /\ theirs = "0.0.0.0")
    \/ (theirs \in V4Binds /\ bind = "0.0.0.0")
    \/ (bind \in V6Binds /\ theirs = "::")
    \/ (theirs \in V6Binds /\ bind = "::")
    \/ (theirs = "::" /\ bind = "0.0.0.0")
    \/ (theirs = "0.0.0.0" /\ bind = "::")

\* stopAdaptersOnSamePort: the filter over the instances
SamePort(instance) ==
    /\ instance._id # us
    /\ instance.enabled
    /\ instance.host = config.host
    /\ instance.bind # NoBind
    /\ BindsOverlap(instance.bind, config.bind)
    /\ \/ instance.port = config.port
       \/ (instance.le /\ instance.leCheckPort = config.port)

\* the instances after common.enabled of the first k of the ids was set
SetEnabled(ids, k, enabled) ==
    [j \in 1..Len(instances) |->
        IF \E m \in 1..k : ids[m] = instances[j]._id
        THEN [instances[j] EXCEPT !.enabled = enabled]
        ELSE instances[j]]

\* the log lines 'Stopping <id>' and 'Starting <id>' of the first k of the ids
Toggled(ids, k, kind) == [j \in 1..k |-> Event(kind, ids[j], FALSE)]

\* stopAdaptersOnSamePort: the answer of getObjectView arrives; the instances
\* on our port are disabled one after the other, then key and CSR are made and
\* the order is started
StopAdaptersOnSamePort ==
    /\ rpc = "stop"
    /\ LET collection == config.collections[ci]
           adapters == SelectSeq(instances, SamePort)
           ids == [j \in 1..Len(adapters) |-> adapters[j]._id]
       IN  \E viewed \in BOOLEAN :
             IF ~viewed
             THEN /\ ObjectOpRaised(events, collection.id)
                  /\ UNCHANGED adapterVars
             ELSE IF adapters = <<>>
             THEN /\ donePortCheck' = TRUE
                  /\ UNCHANGED <<instances, stoppedAdapters>>
                  /\ Prepare(events, collection)
             ELSE /\ stoppedAdapters' = ids
                  /\ \E k \in 0..Len(ids) :
                       /\ instances' = SetEnabled(ids, k, FALSE)
                       /\ IF k < Len(ids)
                          THEN /\ ObjectOpRaised(events \o Toggled(ids, k, "stop"),
                                                 collection.id)
                               /\ donePortCheck' = donePortCheck
                          ELSE /\ donePortCheck' = TRUE
                               /\ Prepare(events \o Toggled(ids, k, "stop"), collection)
    /\ UNCHANGED <<nonRunVars, config, now, store, orders, orphans>>

\* what acme.certificates.create can answer for the domains of a collection
OrderRaised == [raised |-> TRUE, cert |-> BrokenCert]
Pems(cert) == [raised |-> FALSE, cert |-> cert]
IssuedCert(notAfter, domains) ==
    Cert(TRUE, notAfter, IF domains = <<>> THEN <<>> ELSE domains[1], Arr(domains))
OrderAnswers(t, domains) ==
    {OrderRaised, Pems(BrokenCert),
     Pems(IssuedCert(DateAt(t + renewWindow + 1), domains)),
     Pems(IssuedCert(InvalidDate, domains))}

\* what generateCollection does with the answer of the order: the catch around
\* the order, the test of pems, the catch around parseCert, and toISOString
\* raising on an expiry that is not a date
OrderOutcomeAbortsOnFailure(answer) ==
    IF answer.raised THEN "aborted"
    ELSE IF ~answer.cert.parses THEN "notSaved"
    ELSE IF ~answer.cert.notAfter.valid THEN "aborted"
    ELSE "issued"
OrderOutcomeSavesUnparsed(answer) ==
    IF answer.raised THEN "orderFailed"
    ELSE "issued"
OrderOutcome(answer) ==
    IF answer.raised THEN "orderFailed"
    ELSE IF ~answer.cert.parses THEN "notSaved"
    ELSE IF ~answer.cert.notAfter.valid THEN "aborted"
    ELSE "issued"

\* the answer of acme.certificates.create arrives
OrderResp ==
    /\ rpc = "order"
    /\ LET collection == config.collections[ci]
       IN  \E answer \in OrderAnswers(now, Domains(collection)) :
             LET outcome == OrderOutcome(answer)
             IN  /\ orders' = Append(orders, [id |-> collection.id, answer |-> answer])
                 /\ CASE outcome = "aborted" ->
                           LoopAborted(collection.id)
                      [] outcome = "issued" ->
                           /\ rpc' = "save"
                           /\ ci' = ci
                           /\ events' = Append(events, Event("issued", collection.id, TRUE))
                      [] OTHER ->
                           /\ LoopAt(ci + 1)
                           /\ events' = Append(events, Event(outcome, collection.id, TRUE))
    /\ UNCHANGED <<nonRunVars, config, now, store, orphans, adapterVars>>

\* the answer of certManager.setCollection arrives
StoreResp ==
    /\ rpc = "save"
    /\ LET id == config.collections[ci].id
           issued == orders[Len(orders)].answer.cert
       IN  \E saved \in BOOLEAN :
             IF saved
             THEN /\ store' = [store EXCEPT ![ci] = Collection(config.useStaging, issued)]
                  /\ LoopAt(ci + 1)
                  /\ events' = Append(events, Event("write", id, TRUE))
             ELSE /\ store' = store
                  /\ LoopAborted(id)
    /\ UNCHANGED <<nonRunVars, config, now, orders, orphans, adapterVars>>

\* collection.tsExpires < Date.now(): false on NaN
Expired(collection, t) ==
    IF ~collection.cert.notAfter.valid THEN FALSE
    ELSE collection.cert.notAfter.time < t

\* onReady: the test of the purge on a collection of getAllCollections
Purgeable(collection, t) ==
    collection.from = namespace /\ Expired(collection, t)

\* what getAllCollections returns: the stored collections of the configured
\* ids and those of ids that are configured no longer
AllCollections ==
    SelectSeq([k \in 1..Len(store) |->
                  [id |-> config.collections[k].id, collection |-> store[k]]],
              LAMBDA e : e.collection.present)
        \o orphans

\* onReady after the loop: the answer of getAllCollections arrives; the
\* collections the test selects are deleted one after the other until one
\* delCollection raises, the challenges are shut down and the adapters that
\* were stopped are looked up
Purge ==
    /\ rpc = "done"
    /\ LET victims == SelectSeq(AllCollections, LAMBDA e : Purgeable(e.collection, now))
       IN  \E k \in 0..Len(victims) :
             LET deleted == {victims[j].id : j \in 1..k}
             IN  /\ store' = [j \in 1..Len(store) |->
                                IF config.collections[j].id \in deleted
                                THEN NoCollection ELSE store[j]]
                 /\ orphans' = SelectSeq(orphans, LAMBDA e : e.id \notin deleted)
                 /\ events' = events \o [j \in 1..k |-> Event("purge", victims[j].id, FALSE)]
    /\ rpc' = IF stoppedAdapters = NoAdapters THEN "terminated" ELSE "restore"
    /\ UNCHANGED <<nonRunVars, config, now, ci, orders, adapterVars>>

\* restoreAdaptersOnSamePort: the instances in stoppedAdapters are enabled one
\* after the other; when no operation on the object store raises the list is
\* dropped
RestoredNever(k) ==
    /\ instances' = instances
    /\ events' = events
    /\ IF k = Len(stoppedAdapters)
       THEN /\ stoppedAdapters' = NoAdapters
            /\ donePortCheck' = FALSE
       ELSE UNCHANGED <<stoppedAdapters, donePortCheck>>
Restored(k) ==
    /\ instances' = SetEnabled(stoppedAdapters, k, TRUE)
    /\ events' = events \o Toggled(stoppedAdapters, k, "start")
                        \o (IF k = Len(stoppedAdapters) THEN <<>>
                            ELSE <<Event("objectError", "restore", FALSE)>>)
    /\ IF k = Len(stoppedAdapters)
       THEN /\ stoppedAdapters' = NoAdapters
            /\ donePortCheck' = FALSE
       ELSE UNCHANGED <<stoppedAdapters, donePortCheck>>

\* onReady: restoreAdaptersOnSamePort has answered or raised; the run
\* terminates with 'Processing complete'
RestoreAdaptersOnSamePort ==
    /\ rpc = "restore"
    /\ \E k \in 0..Len(stoppedAdapters) : Restored(k)
    /\ rpc' = "terminated"
    /\ UNCHANGED <<nonRunVars, config, now, store, ci, orders, orphans>>

\* onUnload while the run is in progress: the adapters that were stopped are
\* restored without waiting for the object store
OnUnload ==
    /\ rpc \in {"start", "read", "stop", "order", "save", "done", "restore"}
    /\ IF stoppedAdapters = NoAdapters
       THEN UNCHANGED <<adapterVars, events>>
       ELSE \E k \in 0..Len(stoppedAdapters) : Restored(k)
    /\ rpc' = "unloaded"
    /\ UNCHANGED <<nonRunVars, config, now, store, ci, orders, orphans>>

\* our host, bind address and port, and the instance object of this adapter
Settings80(st, active, collections) ==
    [useStaging |-> st, collections |-> collections, http01Active |-> active,
     host |-> "h1", bind |-> "0.0.0.0", port |-> 80]
Instance(id, enabled, host, bind, port, le, leCheckPort) ==
    [_id |-> id, enabled |-> enabled, host |-> host, bind |-> bind, port |-> port,
     le |-> le, leCheckPort |-> leCheckPort]
OwnInstance == Instance(us, TRUE, "h1", "0.0.0.0", 80, FALSE, 0)

\* other instances: on our port, on our port but disabled, on another bind
\* address with its Let's Encrypt check on our port, on another host
MaxAdapters == 2
AdapterIds ==
    <<"system.adapter.web.0", "system.adapter.admin.0", "system.adapter.mqtt.0",
      "system.adapter.ws.0">>
OtherInstances(id) ==
    {Instance(id, TRUE, "h1", "0.0.0.0", 80, FALSE, 0),
     Instance(id, FALSE, "h1", "10.0.0.1", 80, FALSE, 0),
     Instance(id, TRUE, "h1", "::", 8081, TRUE, 80),
     Instance(id, TRUE, "h2", "0.0.0.0", 80, FALSE, 0)}
InstanceLists ==
    UNION {{<<OwnInstance>> \o others :
                others \in {l \in [1..n -> UNION {OtherInstances(AdapterIds[j]) : j \in 1..n}] :
                                \A j \in 1..n : l[j]._id = AdapterIds[j]}} :
           n \in 0..MaxAdapters}

\* a certificate for the name a that has expired
ExpiredCert(t) == Cert(TRUE, DateAt(t - 1), <<"a">>, Arr(<< <<"a">> >>))

\* stored collections of ids that are configured no longer
Orphan(id, collection) == [id |-> id, collection |-> collection]
OrphanLists(t) ==
    {<<>>,
     <<Orphan("old1", Collection(FALSE, ExpiredCert(t)))>>,
     <<Orphan("old1", Collection(FALSE, GoodCert(t))),
       Orphan("old2", CollectionFrom("web.0", FALSE, ExpiredCert(t))),
       Orphan("old3", Collection(TRUE, ExpiredCert(t)))>>}

\* one collection with every configuration and every stored collection
InitOne ==
    /\ now \in Clock
    /\ \E cn \in ConfigCommonNames, an \in ConfigAltNames, st \in BOOLEAN :
         config = Settings80(st, FALSE, <<CollectionConfig(CollectionIds[1], cn, an)>>)
    /\ store \in [1..1 -> StoredCollections(now)]
    /\ orphans = <<>>
    /\ instances = <<OwnInstance>>

\* several collections for the name a, each stored good, due or not at all
InitMany ==
    /\ now \in Clock
    /\ \E n \in 2..MaxCollections, active \in BOOLEAN :
         /\ config = Settings80(FALSE, active,
                                [k \in 1..n |-> CollectionConfig(CollectionIds[k], <<"a">>, <<>>)])
         /\ store \in [1..n -> {NoCollection, Collection(FALSE, GoodCert(now)),
                                Collection(FALSE, DueCert(now))}]
    /\ orphans \in OrphanLists(now)
    /\ instances \in InstanceLists

\* no call of the challenge handler is in progress
HandlerIdle == InitStateOf({"none"}, {<<>>}, {"tok1"}, {NoArgs})

InitRun ==
    /\ HandlerIdle
    /\ LogIdle
    /\ ConcIdle
    /\ CycleIdle
    /\ rpc = "start"
    /\ ci = 0
    /\ events = <<>>
    /\ orders = <<>>
    /\ stoppedAdapters = NoAdapters
    /\ donePortCheck = FALSE
    /\ InitOne \/ InitMany

NextRun ==
    \/ OnReady
    \/ GenerateCollection
    \/ StopAdaptersOnSamePort
    \/ OrderResp
    \/ StoreResp
    \/ Purge
    \/ RestoreAdaptersOnSamePort
    \/ OnUnload
SpecRun == InitRun /\ [][NextRun]_vars

\* ---------------------------------------------------------------------------
\* Adapter and handler: what start-up writes to the log

\* String.prototype.toLowerCase on one character, as the i flag applies it
LowerChar(c) ==
    CASE c = "A" -> "a"
      [] c = "B" -> "b"
      [] c = "C" -> "c"
      [] c = "D" -> "d"
      [] c = "E" -> "e"
      [] c = "F" -> "f"
      [] c = "G" -> "g"
      [] c = "H" -> "h"
      [] c = "I" -> "i"
      [] c = "J" -> "j"
      [] c = "K" -> "k"
      [] c = "L" -> "l"
      [] c = "M" -> "m"
      [] c = "N" -> "n"
      [] c = "O" -> "o"
      [] c = "P" -> "p"
      [] c = "Q" -> "q"
      [] c = "R" -> "r"
      [] c = "S" -> "s"
      [] c = "T" -> "t"
      [] c = "U" -> "u"
      [] c = "V" -> "v"
      [] c = "W" -> "w"
      [] c = "X" -> "x"
      [] c = "Y" -> "y"
      [] c = "Z" -> "z"
      [] OTHER -> c
Lower(s) == [j \in 1..Len(s) |-> LowerChar(s[j])]
HasWord(s, w) ==
    \E j \in 1..(Len(s) - Len(w) + 1) : SubSeq(s, j, j + Len(w) - 1) = w
StartsWith(s, w) == Len(s) >= Len(w) /\ SubSeq(s, 1, Len(w)) = w

\* /api|key|secret|password|token/i.test(key)
SensitiveWords ==
    {<<"a", "p", "i">>, <<"k", "e", "y">>, <<"s", "e", "c", "r", "e", "t">>,
     <<"p", "a", "s", "s", "w", "o", "r", "d">>, <<"t", "o", "k", "e", "n">>}
SensitiveKey(key) == \E w \in SensitiveWords : HasWord(Lower(key), w)

\* a configured value with its JavaScript type, and the mask
StrValue(text) == [type |-> "string", text |-> text]
NumValue(text) == [type |-> "number", text |-> text]
BoolValue(b) == [type |-> "boolean", text |-> IF b THEN "true" ELSE "false"]
Masked == StrValue("***")
Truthy(v) ==
    CASE v.type = "string" -> v.text # ""
      [] v.type = "number" -> v.text # "0"
      [] OTHER -> v.text = "true"

\* the copy of an object that is logged: values under sensitive keys are
\* replaced when they are non-empty strings
Safe(obj) ==
    [key \in DOMAIN obj |->
        IF SensitiveKey(key) /\ obj[key].type = "string" /\ obj[key].text # ""
        THEN Masked
        ELSE obj[key]]

\* the value texts JSON.stringify writes for an object
Stringify(obj) == {obj[key].text : key \in DOMAIN obj}
Message(text, shows) == [text |-> text, shows |-> shows]

\* the keys of the configuration
KeyCustomerNumber == <<"d", "n", "s", "0", "1", "O", "c", "u", "s", "t", "o", "m", "e", "r", "N", "u", "m", "b", "e", "r">>
KeyApiKey == <<"d", "n", "s", "0", "1", "O", "a", "p", "i", "K", "e", "y">>
KeyApiPassword == <<"d", "n", "s", "0", "1", "O", "a", "p", "i", "P", "a", "s", "s", "w", "o", "r", "d">>
KeyActive == <<"d", "n", "s", "0", "1", "A", "c", "t", "i", "v", "e">>
KeyModule == <<"d", "n", "s", "0", "1", "M", "o", "d", "u", "l", "e">>
KeyEmail == <<"m", "a", "i", "n", "t", "a", "i", "n", "e", "r", "E", "m", "a", "i", "l">>
KeyUseStaging == <<"u", "s", "e", "S", "t", "a", "g", "i", "n", "g">>
OptionPrefix == <<"d", "n", "s", "0", "1", "O">>

\* the options handed to the handler: the dns01O keys without their prefix
dns01Options(cfg) ==
    LET keys == {key \in DOMAIN cfg : StartsWith(key, OptionPrefix)}
    IN  [option \in {SliceFrom(key, 6) : key \in keys} |-> cfg[OptionPrefix \o option]]

\* the credentials of a configuration and of a saved account; a key that is
\* missing reads as undefined
NoValue == [type |-> "undefined", text |-> ""]
CustomerNumbers == {StrValue("12345"), NumValue("12345"), StrValue(""), NoValue}
ApiKeys == {StrValue("key-1"), StrValue("")}
ApiPasswords == {StrValue("pw-1"), StrValue(""), NoValue}
AccountKeys == {"jwk-d-1"}
Emails == {StrValue("me@example.org"), StrValue("old@example.org")}

\* the native part of the account object: key, full, maintainerEmail and
\* useStaging; full is empty when it is missing
NoAccount ==
    [present |-> FALSE, key |-> "", full |-> "", maintainerEmail |-> NoValue,
     useStaging |-> NoValue]
Account(key, full, maintainerEmail, useStaging) ==
    [present |-> TRUE, key |-> key, full |-> full, maintainerEmail |-> maintainerEmail,
     useStaging |-> useStaging]
SavedAccounts ==
    {NoAccount} \cup
    {Account(key, full, email, flag) :
        key \in AccountKeys, full \in {"acct-saved", ""}, email \in Emails,
        flag \in {BoolValue(TRUE), BoolValue(FALSE), NoValue}}

Settings(customerNumber, apiKey, apiPassword, active, staging) ==
    (KeyCustomerNumber :> customerNumber) @@ (KeyApiKey :> apiKey)
    @@ (KeyApiPassword :> apiPassword) @@ (KeyActive :> BoolValue(active))
    @@ (KeyModule :> StrValue("acme-dns-01-netcup")) @@ (KeyEmail :> StrValue("me@example.org"))
    @@ (KeyUseStaging :> BoolValue(staging))

\* onReady: the configuration is logged
LogConfig ==
    /\ lpc = "config"
    /\ logged' = Append(logged, Message("config", Stringify(Safe(settings))))
    /\ lpc' = IF Truthy(settings[KeyActive]) THEN "options" ELSE "account"
    /\ UNCHANGED <<nonLogVars, settings, savedAccount, account, challenge>>

\* initChallenges: the dns-01 options are logged
LogOptions ==
    /\ lpc = "options"
    /\ logged' = Append(logged, Message("dns-01 options", Stringify(Safe(dns01Options(settings)))))
    /\ lpc' = "create"
    /\ UNCHANGED <<nonLogVars, settings, savedAccount, account, challenge>>

\* create: !customerNumber || !apiKey || !apiPassword
MissingCustomerNumber(options) ==
    ~Truthy(options[<<"c", "u", "s", "t", "o", "m", "e", "r", "N", "u", "m", "b", "e", "r">>])
MissingCredential(options) ==
    \/ ~Truthy(options[<<"c", "u", "s", "t", "o", "m", "e", "r", "N", "u", "m", "b", "e", "r">>])
    \/ ~Truthy(options[<<"a", "p", "i", "K", "e", "y">>])
    \/ ~Truthy(options[<<"a", "p", "i", "P", "a", "s", "s", "w", "o", "r", "d">>])

\* the handler create returns, and no handler
HandlerMethods == {"init", "set", "get", "remove", "shutdown"}
NoChallenge == [created |-> FALSE, methods |-> {}, returned |-> <<>>]
Challenge == [created |-> TRUE, methods |-> HandlerMethods, returned |-> <<>>]

\* create of the handler: a missing credential raises, which initChallenges
\* logs as a module that failed to load; otherwise the call is logged and the
\* handler is kept as the dns-01 challenge
CreateHandler ==
    /\ lpc = "create"
    /\ LET options == dns01Options(settings)
           customerNumber == options[<<"c", "u", "s", "t", "o", "m", "e", "r", "N", "u", "m", "b", "e", "r">>]
       IN  IF MissingCredential(options)
           THEN /\ logged' = Append(logged, Message("Failed to load dns-01 challenge module", {}))
                /\ challenge' = NoChallenge
           ELSE /\ logged' = Append(logged, Message("create() called", {customerNumber.text}))
                /\ challenge' = Challenge
    /\ lpc' = "account"
    /\ UNCHANGED <<nonLogVars, settings, savedAccount, account>>

\* init and shutdown of the handler, called by the ACME client
MaxLifecycleCalls == 2
HandlerInit ==
    /\ challenge.created
    /\ Len(challenge.returned) < MaxLifecycleCalls
    /\ challenge' = [challenge EXCEPT !.returned = Append(@, [method |-> "init", value |-> "null"])]
    /\ UNCHANGED <<nonLogVars, settings, savedAccount, account, lpc, logged>>
HandlerShutdown ==
    /\ challenge.created
    /\ Len(challenge.returned) < MaxLifecycleCalls
    /\ challenge' = [challenge EXCEPT !.returned = Append(@, [method |-> "shutdown", value |-> "undefined"])]
    /\ UNCHANGED <<nonLogVars, settings, savedAccount, account, lpc, logged>>

\* initAcme: the tests of the saved account object against the configuration
ReusableWhateverFlag(accountObject, cfg) ==
    /\ accountObject.maintainerEmail = cfg[KeyEmail]
    /\ accountObject.useStaging # NoValue
ReusableAccount(accountObject, cfg) ==
    /\ accountObject.maintainerEmail = cfg[KeyEmail]
    /\ accountObject.useStaging # NoValue
    /\ accountObject.useStaging = cfg[KeyUseStaging]

\* this.account as the constructor leaves it
EmptyAccount == [key |-> "", full |-> ""]

\* initAcme: the answer of getObjectAsync arrives; a saved account object is
\* logged as it was read and taken over when it passes the tests; without a
\* full account the registration starts
LoadAccount ==
    /\ lpc = "account"
    /\ LET loaded == IF savedAccount.present /\ ReusableAccount(savedAccount, settings)
                     THEN [key |-> savedAccount.key, full |-> savedAccount.full]
                     ELSE account
           seen == IF savedAccount.present
                   THEN Append(logged, Message("Loaded existing ACME account", {savedAccount.key}))
                   ELSE logged
       IN  /\ account' = loaded
           /\ IF loaded.full = ""
              THEN /\ logged' = Append(seen, Message("Registering new ACME account...", {}))
                   /\ lpc' = "register"
              ELSE /\ logged' = seen
                   /\ lpc' = "done"
    /\ UNCHANGED <<nonLogVars, settings, savedAccount, challenge>>

\* initAcme: the answer of accounts.create arrives, for a key pair made anew
RegisterAccount ==
    /\ lpc = "register"
    /\ \E registered \in BOOLEAN :
         IF registered
         THEN /\ account' = [key |-> "jwk-d-new", full |-> "acct-new"]
              /\ lpc' = "persist"
         ELSE /\ account' = [account EXCEPT !.key = "jwk-d-new"]
              /\ lpc' = "failed"
    /\ UNCHANGED <<nonLogVars, settings, savedAccount, logged, challenge>>

\* initAcme: the answer of extendObjectAsync arrives
PersistAccount ==
    /\ lpc = "persist"
    /\ \E extended \in BOOLEAN :
         IF extended
         THEN /\ savedAccount' = Account(account.key, account.full, settings[KeyEmail],
                                         settings[KeyUseStaging])
              /\ lpc' = "done"
         ELSE /\ savedAccount' = savedAccount
              /\ lpc' = "failed"
    /\ UNCHANGED <<nonLogVars, settings, account, logged, challenge>>

InitLog ==
    /\ HandlerIdle
    /\ RunIdle
    /\ ConcIdle
    /\ CycleIdle
    /\ \E customerNumber \in CustomerNumbers, apiKey \in ApiKeys,
          apiPassword \in ApiPasswords, active \in BOOLEAN, staging \in BOOLEAN :
         settings = Settings(customerNumber, apiKey, apiPassword, active, staging)
    /\ savedAccount \in SavedAccounts
    /\ account = EmptyAccount
    /\ challenge = NoChallenge
    /\ lpc = "config"
    /\ logged = <<>>

NextLog ==
    \/ LogConfig
    \/ LogOptions
    \/ CreateHandler
    \/ HandlerInit
    \/ HandlerShutdown
    \/ LoadAccount
    \/ RegisterAccount
    \/ PersistAccount
SpecLog == InitLog /\ [][NextLog]_vars

\* ---------------------------------------------------------------------------
\* Challenge handler: concurrent calls of set and remove

MaxCalls == 2
MaxProbes == 2

\* the challenges of the calls: one relative name, one value per call
ConcName == <<"a">>
CallTokens == <<"tokA", "tokB", "tokC", "tokD">>

\* a record of the zone as the server lists it
ZoneRecord(id, dest) == ListedRecord(id, ConcName, "TXT", dest)

\* a call before its login (probe counts the probes of findZone while it
\* runs), and an API request as the server receives it
NewCall(o, auth) ==
    [op |-> o, pc |-> "start", apisessionid |-> 0, probe |-> 0,
     dnsAuthorization |-> auth, toDelete |-> {}, ok |-> TRUE]
Request(c, action, sid) ==
    [call |-> c, action |-> action, apisessionid |-> sid]

\* the apisessionid a call puts into a request: its own local, whatever
\* session the server issued last
CallSessionLatest(call, latest) == latest
CallSession(call, latest) == call.apisessionid

\* call c sends a request and waits at a step for the answer
Send(c, call, step, action, latest) ==
    /\ calls' = [calls EXCEPT ![c] = [call EXCEPT !.pc = step]]
    /\ wire' = wire \cup {Request(c, action, CallSession(call, latest))}

\* call c ends
Return(c, call) ==
    /\ calls' = [calls EXCEPT ![c] = [call EXCEPT !.pc = "done"]]
    /\ wire' = wire

\* set or remove is called: login is requested
CallStart(c) ==
    /\ calls[c].pc = "start"
    /\ calls' = [calls EXCEPT ![c].pc = "login"]
    /\ wire' = wire \cup {Request(c, "login", 0)}
    /\ UNCHANGED <<nonConcVars, sessions, zoneRecords>>

\* the answer of login arrives: on success the server has issued a session
\* and findZone sends its first probe; on failure the call raises
LoginAnswer(c) ==
    /\ calls[c].pc = "login"
    /\ \E ok \in BOOLEAN :
         IF ok
         THEN /\ sessions' = Append(sessions, c)
              /\ Send(c, [calls[c] EXCEPT !.apisessionid = Len(sessions'), !.probe = 1],
                      "zone", "infoDnsZone", Len(sessions'))
         ELSE /\ sessions' = sessions
              /\ Return(c, [calls[c] EXCEPT !.ok = FALSE])
    /\ UNCHANGED <<nonConcVars, zoneRecords>>

\* the answer of a zone probe arrives: findZone probes the next candidate or
\* returns, and the call lists the records (remove) or writes (set)
ZoneAnswer(c) ==
    /\ calls[c].pc = "zone"
    /\ \E found \in BOOLEAN :
         IF ~found /\ calls[c].probe < MaxProbes
         THEN Send(c, [calls[c] EXCEPT !.probe = @ + 1], "zone", "infoDnsZone", Len(sessions))
         ELSE IF calls[c].op = "remove"
         THEN Send(c, [calls[c] EXCEPT !.probe = 0], "list", "infoDnsRecords", Len(sessions))
         ELSE Send(c, [calls[c] EXCEPT !.probe = 0], "write", "updateDnsRecords", Len(sessions))
    /\ UNCHANGED <<nonConcVars, sessions, zoneRecords>>

\* remove: the listing arrives, the records of the zone or, on an error status
\* code, nothing; nothing to delete goes to logout
ListAnswer(c) ==
    /\ calls[c].pc = "list"
    /\ \E listed \in BOOLEAN :
         LET records == IF listed THEN zoneRecords ELSE {}
             matched == {r \in records : Matches(r, ConcName, calls[c].dnsAuthorization)}
             call == [calls[c] EXCEPT !.toDelete = matched, !.ok = listed]
         IN  IF matched = {}
             THEN Send(c, call, "logout", "logout", Len(sessions))
             ELSE Send(c, call, "write", "updateDnsRecords", Len(sessions))
    /\ UNCHANGED <<nonConcVars, sessions, zoneRecords>>

\* the answer of updateDnsRecords arrives: the server has added the record of
\* set, or deleted the records remove submitted, or refused; finally logs out
WriteAnswer(c) ==
    /\ calls[c].pc = "write"
    /\ \E written \in BOOLEAN :
         /\ zoneRecords' =
               IF ~written THEN zoneRecords
               ELSE IF calls[c].op = "set"
               THEN zoneRecords \cup {ZoneRecord(10 + c, calls[c].dnsAuthorization)}
               ELSE {r \in zoneRecords : \A d \in calls[c].toDelete : d.id # r.id}
         /\ Send(c, [calls[c] EXCEPT !.ok = written], "logout", "logout", Len(sessions))
    /\ UNCHANGED <<nonConcVars, sessions>>

\* the answer of logout arrives
LogoutAnswer(c) ==
    /\ calls[c].pc = "logout"
    /\ Return(c, calls[c])
    /\ UNCHANGED <<nonConcVars, sessions, zoneRecords>>

\* the zone holds the record of every challenge that is to be removed, and a
\* record of another challenge at the same name
InitConc ==
    /\ HandlerIdle
    /\ RunIdle
    /\ LogIdle
    /\ CycleIdle
    /\ \E n \in 1..MaxCalls :
         \E ops \in [1..n -> {"set", "remove"}] :
            /\ calls = [c \in 1..n |-> NewCall(ops[c], CallTokens[c])]
            /\ zoneRecords = {ZoneRecord(c, CallTokens[c]) : c \in {k \in 1..n : ops[k] = "remove"}}
                                \cup {ZoneRecord(0, "stale")}
    /\ sessions = <<>>
    /\ wire = {}

NextConc ==
    \E c \in DOMAIN calls :
        \/ CallStart(c)
        \/ LoginAnswer(c)
        \/ ZoneAnswer(c)
        \/ ListAnswer(c)
        \/ WriteAnswer(c)
        \/ LogoutAnswer(c)
SpecConc == InitConc /\ [][NextConc]_vars

\* ---------------------------------------------------------------------------
\* Challenge handler: one challenge from set over get to remove

MaxGets == 3

CycleHost == <<"b", ".", "a">>
CycleToken == "tok1"

\* the TXT values another challenge of the same name has left at dnsHost
OtherTxt == {"stale"}

\* resolveTxt: the record sets of the values the resolver sees, in some order
RECURSIVE TxtRecordsOf(_)
TxtRecordsOf(values) ==
    IF values = {} THEN <<>>
    ELSE LET v == CHOOSE x \in values : TRUE
         IN  <<<<v>>>> \o TxtRecordsOf(values \ {v})

\* what publicResolver.resolveTxt can answer: the lookup fails, or it answers
\* the values the resolver sees; no value at the name is the error ENODATA
LookupAnswers(values) ==
    {[ok |-> FALSE, records |-> <<>>]} \cup
    (IF values = {} THEN {} ELSE {[ok |-> TRUE, records |-> TxtRecordsOf(values)]})

\* set: login, findZone and updateDnsRecords have answered; the record is in
\* the zone and the polling loop starts, or the call has raised
CycleSet ==
    /\ cycle = "set"
    /\ \E written \in BOOLEAN :
         IF written
         THEN /\ zoneTxt' = zoneTxt \cup {CycleToken}
              /\ cycle' = "polling"
              /\ cycleAttempt' = 1
         ELSE /\ zoneTxt' = zoneTxt
              /\ cycle' = "failed"
              /\ cycleAttempt' = cycleAttempt
    /\ UNCHANGED <<nonCycleVars, publicTxt, gets>>

\* the public resolver catches up with one change of the zone
Propagate ==
    /\ \E v \in (zoneTxt \ publicTxt) \cup (publicTxt \ zoneTxt) :
         publicTxt' = IF v \in zoneTxt THEN publicTxt \cup {v} ELSE publicTxt \ {v}
    /\ UNCHANGED <<nonCycleVars, zoneTxt, cycle, cycleAttempt, gets>>

\* set: a lookup of the polling loop is answered
CyclePoll ==
    /\ cycle = "polling"
    /\ \E ans \in LookupAnswers(publicTxt) :
         IF ans.ok /\ SetConfirmed(ans.records, CycleToken)
         THEN /\ cycle' = "confirmed"
              /\ cycleAttempt' = cycleAttempt
         ELSE IF cycleAttempt < SetMaxAttempts
         THEN /\ cycle' = cycle
              /\ cycleAttempt' = cycleAttempt + 1
         ELSE /\ cycle' = "failed"
              /\ cycleAttempt' = cycleAttempt
    /\ UNCHANGED <<nonCycleVars, zoneTxt, publicTxt, gets>>

\* get: the lookup is answered
CycleGet ==
    /\ Len(gets) < MaxGets
    /\ \E ans \in LookupAnswers(publicTxt) :
         gets' = Append(gets, [cycle |-> cycle,
                               answered |-> ans.ok,
                               visible |-> CycleToken \in publicTxt,
                               result |-> GetResult(ans, CycleToken)])
    /\ UNCHANGED <<nonCycleVars, zoneTxt, publicTxt, cycle, cycleAttempt>>

\* remove after a confirmed set: the matching records are deleted from the
\* zone, or the call has raised
CycleRemove ==
    /\ cycle = "confirmed"
    /\ \E deleted \in BOOLEAN :
         IF deleted
         THEN /\ zoneTxt' = zoneTxt \ {CycleToken}
              /\ cycle' = "removed"
         ELSE /\ zoneTxt' = zoneTxt
              /\ cycle' = cycle
    /\ UNCHANGED <<nonCycleVars, publicTxt, cycleAttempt, gets>>

InitCycle ==
    /\ HandlerIdle
    /\ RunIdle
    /\ LogIdle
    /\ ConcIdle
    /\ zoneTxt \in SUBSET OtherTxt
    /\ publicTxt = zoneTxt
    /\ cycle = "set"
    /\ cycleAttempt = 0
    /\ gets = <<>>

NextCycle ==
    \/ CycleSet
    \/ Propagate
    \/ CyclePoll
    \/ CycleGet
    \/ CycleRemove
SpecCycle == InitCycle /\ [][NextCycle]_vars

Init ==
    \/ InitCall(HandlerOps, OpHosts, Tokens)
    \/ InitCall({"poll"}, PollHosts, {"tok1"})

Next ==
    \/ Call
    \/ LoginResp
    \/ ZoneProbe
    \/ ListResp
    \/ WriteResp
    \/ LogoutResp
    \/ SetTxtResp
    \/ SetBuildTxtResp
    \/ GetCall
    \/ GetTxtResp
    \/ NsResp
    \/ Ns4Resp
    \/ PollCall
    \/ PollAuthTxtResp
    \/ PollPubTxtResp

Spec == Init /\ [][Next]_vars

----------------------------------------------------------------------------
(* Properties *)

LogoutCount == Len(SelectSeq(reqs, LAMBDA q : q.action = "logout"))
SessionOps == {"set", "setBuild", "getApi", "remove"}
SetOps == {"set", "setBuild"}
LoginSucceeded == apisessionid # NoSid
Returned == pc = "done" /\ result.kind = "value"
Raised == pc = "done" /\ result.kind = "throw"

\* C1: set returns success (null) only after some TXT lookup for dnsHost has
\* returned a result containing a value equal to dnsAuthorization.
C1_SetSuccessRequiresMatch ==
    (op \in SetOps /\ Returned) => (pubMatchAt # 0 \/ authMatchAt # 0)

\* C2: in set, remove and the provider variant of get, once login has
\* succeeded at most one logout request is ever sent, it carries the session
\* id of that login, and it has been sent when the operation returns or
\* raises and before any DNS polling starts.
C2_ExactlyOneLogout ==
    (op \in SessionOps /\ LoginSucceeded) =>
        /\ LogoutCount <= 1
        /\ \A k \in 1..Len(reqs) :
              reqs[k].action = "logout" => reqs[k].sid = apisessionid
        /\ (pc \in {"done", "txt", "ns", "ns4", "txtAuth"} => LogoutCount = 1)

\* C2 witness: remove ended by a raised zone probe, its session closed.
C2_Witness ==
    /\ op = "remove" /\ Raised
    /\ result.err.from = "infoDnsZone"
    /\ LoginSucceeded /\ LogoutCount = 1

\* C3: when login fails in set or remove the call ends with the login error
\* and has sent nothing but the login request and issued no DNS lookup.
C3_LoginFailureAborts ==
    (op \in SessionOps /\ pc \notin {"start", "login"} /\ ~LoginSucceeded) =>
        /\ Raised
        /\ result.err.from = "login"
        /\ Len(reqs) = 1 /\ reqs[1].action = "login"
        /\ authLookups = 0 /\ pubLookups = 0

\* C3 witness: remove ended by a failed login.
C3_Witness ==
    /\ op = "remove" /\ Raised /\ ~LoginSucceeded
    /\ result.err = Err("login", "api")

\* C4: when the updateDnsRecords write fails inside set, logout is sent while
\* the error is still held back, the error reaching the caller is the write
\* error, and no DNS lookup is issued.
C4_WriteFailureInSet ==
    (op \in SetOps /\ pending.kind = "throw" /\ pending.err.from = "updateDnsRecords") =>
        /\ pc \in {"logout", "done"}
        /\ LogoutCount = 1 /\ reqs[Len(reqs)].action = "logout"
        /\ (pc = "logout" => result.kind = "none")
        /\ (pc = "done" => result = pending)
        /\ authLookups = 0 /\ pubLookups = 0

\* C4 witness: set ended by the error of its write.
C4_Witness ==
    /\ op = "set" /\ Raised
    /\ result.err.from = "updateDnsRecords"
    /\ reqs[Len(reqs) - 1].action = "updateDnsRecords"

\* C5: when no lookup returns the expected value, the polling loop of set and
\* the first tier of pollDns01Challenge issue exactly the cap of lookups and
\* end with a raised error.
C5_ExhaustionRaises ==
    /\ (op = "set" /\ pc = "done" /\ pubLookups > 0 /\ pubMatchAt = 0) =>
           (pubLookups = 30 /\ result.kind = "throw")
    /\ (op \in {"setBuild", "poll"} /\ pc = "done" /\ authLookups > 0 /\ authMatchAt = 0) =>
           (authLookups = 120 /\ result.kind = "throw")
    /\ (op = "set" => pubLookups <= 30)
    /\ authLookups <= 120

\* C6: in each polling loop the first lookup whose answer includes the
\* expected value ends the loop with success and no further lookup is issued
\* on that tier.
C6_FirstMatchEndsLoop ==
    /\ (authMatchAt # 0) =>
           /\ authLookups = authMatchAt
           /\ (op = "setBuild" => Returned /\ result.value = Null)
           /\ (op = "poll" => pc \in {"txtPub", "done"})
    /\ (pubMatchAt # 0) =>
           /\ pubLookups = pubMatchAt
           /\ (op \in {"set", "poll"} => Returned)
           /\ (op = "set" => result.value = Null)

\* C6 witness: pollDns01Challenge ended after a late match on each tier.
C6_Witness ==
    /\ op = "poll" /\ Returned
    /\ authMatchAt = 3 /\ pubMatchAt = 2

C8_AdditiveBudgets ==
    op = "poll" =>
        /\ authLookups <= 120 /\ pubLookups <= 60
        /\ authLookups + pubLookups <= 120 + 60
        /\ (pubLookups > 0 => authMatchAt \in 1..120)
        /\ (pc = "txtPub" => attempt = pubLookups)
        /\ (pc = "done" /\ pubLookups > 0 /\ pubMatchAt = 0 => pubLookups = 60)

\* C8 witness: both tiers used their whole budget.
C8_Witness ==
    /\ op = "poll" /\ pc = "done"
    /\ authLookups = 120 /\ pubLookups = 60

\* fullHost has at least 3 labels and none is empty
ValidHost(fullHost) ==
    /\ Len(Split(fullHost)) >= 3
    /\ \A k \in 1..Len(Split(fullHost)) : Split(fullHost)[k] # <<>>

\* C9: for every fullHost of at least 3 non-empty labels and every pattern of
\* probe answers, the pair findZone returns reconstructs fullHost.
C9_ZoneReconstructsHost ==
    (op = "findZone" /\ Returned /\ ValidHost(dnsHost)) =>
        dnsHost = IF result.value.hostname = <<"@">>
                  THEN result.value.rootDomain
                  ELSE result.value.hostname \o <<Dot>> \o result.value.rootDomain

\* C9 witness: a 4-label host whose first candidate was accepted.
C9_Witness ==
    /\ op = "findZone" /\ Returned
    /\ dnsHost = <<"a", Dot, "b", Dot, "a", Dot, "b">>
    /\ result.value.rootDomain = <<"b", Dot, "a", Dot, "b">>
    /\ result.value.hostname = <<"a">>

\* C10: findZone probes labels[i:] for i = 1 .. labelCount-2 in that order,
\* stops at the first accepted probe and returns that candidate with the
\* leading labels as relative name.
C10_ProbeOrder ==
    op = "findZone" =>
        LET labels == Split(dnsHost)
            n == Len(labels)
            np == Len(probes)
        IN  /\ np <= (IF n >= 2 THEN n - 2 ELSE 0)
            /\ \A k \in 1..np : probes[k].candidate = Join(SubSeq(labels, k + 1, n))
            /\ \A k \in 1..(np - 1) : ~probes[k].accepted
            /\ (Returned /\ np > 0 /\ probes[np].accepted) =>
                   /\ rootDomain = probes[np].candidate
                   /\ hostname = OrAt(Join(SubSeq(labels, 1, np)))
            /\ (Returned /\ (np = 0 \/ ~probes[np].accepted)) =>
                   np = (IF n >= 2 THEN n - 2 ELSE 0)

\* C10 witness: only the 2-label suffix of a 4-label host is accepted.
C10_Witness ==
    /\ op = "findZone" /\ Returned
    /\ dnsHost = <<"a", Dot, "b", Dot, "a", Dot, "b">>
    /\ probes = <<[candidate |-> <<"b", Dot, "a", Dot, "b">>, accepted |-> FALSE],
                  [candidate |-> <<"a", Dot, "b">>, accepted |-> TRUE]>>
    /\ rootDomain = <<"a", Dot, "b">>
    /\ hostname = <<"a", Dot, "b">>

----------------------------------------------------------------------------
(* Zone discovery: answers that name no zone, the fallback, failing probes *)

\* the labels of a host name
Labels(fullHost) == Split(fullHost)
LabelCount(fullHost) == Len(Labels(fullHost))

\* the last n labels of a host name, joined
LastLabels(fullHost, n) ==
    Join(SubSeq(Labels(fullHost), LabelCount(fullHost) - n + 1, LabelCount(fullHost)))

\* the labels of a host name before its last n, joined
LeadingLabels(fullHost, n) ==
    Join(SubSeq(Labels(fullHost), 1, LabelCount(fullHost) - n))

LastReq == reqs[Len(reqs)]
LastProbe == probes[Len(probes)]

\* a successful answer that names no zone: null, or an object without a name
\* (the empty object included)
NamelessZoneData == {Null, [type |-> "object", name |-> Undefined]}

\* C11: a zone probe answered with success and an empty object, null or an
\* object without a zone name is not accepted: the candidate is skipped and
\* the next, shorter candidate is probed (the last-two-labels fallback is
\* taken when no candidate is left).
C11_NamelessAnswerSkipped ==
    [][(/\ pc = "probe"
        /\ lastAnswer'.action = "infoDnsZone"
        /\ lastAnswer'.class = "success"
        /\ lastAnswer'.data \in NamelessZoneData)
       => /\ Len(probes') = zi
          /\ probes'[zi].candidate = LastLabels(dnsHost, LabelCount(dnsHost) - zi)
          /\ ~probes'[zi].accepted
          /\ IF zi + 1 <= LabelCount(dnsHost) - 2
             THEN /\ pc' = "probe"
                  /\ zi' = zi + 1
                  /\ reqs'[Len(reqs')].action = "infoDnsZone"
                  /\ reqs'[Len(reqs')].domainname =
                         LastLabels(dnsHost, LabelCount(dnsHost) - zi - 1)
             ELSE /\ pc' # "probe"
                  /\ rootDomain' = LastLabels(dnsHost, 2)]_vars

\* the empty object was the answer to the first probe and the second candidate
\* is being probed
C11_Witness ==
    /\ pc = "probe"
    /\ zi = 2
    /\ lastAnswer = [action |-> "infoDnsZone", class |-> "success",
                     data |-> [type |-> "object", name |-> Undefined]]
    /\ ~probes[1].accepted

\* a probe of the call raised
ProbeRaised ==
    \/ pending.kind = "throw" /\ pending.err.from = "infoDnsZone"
    \/ result.kind = "throw" /\ result.err.from = "infoDnsZone"

\* findZone has probed every candidate, accepted none and returned
FellBack ==
    /\ LoginSucceeded
    /\ pc \notin {"start", "login", "probe"}
    /\ ~ProbeRaised
    /\ Len(probes) = LabelCount(dnsHost) - 2
    /\ \A k \in 1..Len(probes) : ~probes[k].accepted

\* the relative name the fallback gives
FallbackName(fullHost) ==
    IF LabelCount(fullHost) = 2 THEN <<"@">> ELSE LeadingLabels(fullHost, 2)

\* the request a handler sends once the zone is known
ZoneRequest(q) ==
    IF op = "remove"
    THEN q.action = "infoDnsRecords"
    ELSE /\ q.action = "updateDnsRecords"
         /\ q.dnsrecords[1].hostname = FallbackName(dnsHost)

\* C12: when no candidate is accepted after all labelCount-2 probes, findZone
\* returns the last two labels of the host as the zone and the leading labels
\* (or "@" when there are none) as the relative name, and set and remove go on
\* with their next request, which names that zone.
C12_FallbackProceeds ==
    (op \in {"set", "setBuild", "remove"} /\ FellBack) =>
        /\ rootDomain = LastLabels(dnsHost, 2)
        /\ hostname = FallbackName(dnsHost)
        /\ reqs[Len(probes) + 2].domainname = LastLabels(dnsHost, 2)
        /\ ZoneRequest(reqs[Len(probes) + 2])

\* remove of a four-label host lists the fallback zone after two rejected probes
C12_Witness ==
    /\ op = "remove"
    /\ pc = "list"
    /\ FellBack
    /\ Len(probes) = 2
    /\ rootDomain = <<"b", Dot, "a">>
    /\ hostname = <<"a", Dot, "a">>
    /\ LastReq.action = "infoDnsRecords" /\ LastReq.domainname = <<"b", Dot, "a">>

\* after the probe of candidate zi: the candidate is rejected and findZone goes
\* on, to the next candidate or to the fallback
ProbeSwallowed ==
    /\ ~ProbeRaised'
    /\ Len(probes') = zi
    /\ ~probes'[zi].accepted
    /\ IF zi + 1 <= LabelCount(dnsHost) - 2
       THEN /\ pc' = "probe"
            /\ zi' = zi + 1
            /\ reqs'[Len(reqs')].domainname =
                   LastLabels(dnsHost, LabelCount(dnsHost) - zi - 1)
       ELSE /\ pc' # "probe"
            /\ rootDomain' = LastLabels(dnsHost, 2)

\* after the probe of candidate zi: findZone raises and resolves no zone
ProbePropagated ==
    /\ ProbeRaised'
    /\ pc' # "probe"
    /\ rootDomain' = rootDomain
    /\ Len(SelectSeq(reqs', LAMBDA q : q.action = "infoDnsZone")) = zi

ProbeAnswered(classes) ==
    /\ pc = "probe"
    /\ lastAnswer'.action = "infoDnsZone"
    /\ lastAnswer'.class \in classes

\* C13 as stated: a zone probe that fails in whatever way (error status code,
\* HTTP failure, non-JSON body) is swallowed: findZone does not raise and
\* goes on with the next candidate.
C13_AnyProbeFailureSwallowed ==
    [][ProbeAnswered({"error", "httpError", "nonJson"}) => ProbeSwallowed]_vars

\* C13 amended: a zone probe answered with an error status code is swallowed
\* and findZone goes on with the next candidate; a probe that fails with an
\* HTTP failure or a non-JSON body makes findZone raise that error, and no
\* further candidate is probed.
C13_StatusFailureSwallowed ==
    [][/\ ProbeAnswered({"error"}) => ProbeSwallowed
       /\ ProbeAnswered({"httpError", "nonJson"}) => ProbePropagated]_vars

\* findZone raised the HTTP failure of its second probe, after an error status
\* on the first
C13_Witness ==
    /\ op = "findZone"
    /\ Raised
    /\ result.err = Err("infoDnsZone", "http")
    /\ lastAnswer = [action |-> "infoDnsZone", class |-> "httpError", data |-> Null]
    /\ Len(probes) = 2

----------------------------------------------------------------------------
(* API client: the success band and the throwOnError flag *)

ApiCalled == op = "apiCall" /\ pc = "done" /\ apiArgs.resp.kind = "json"

\* the call was treated as a success: it returned the responsedata of the answer
TreatedAsSuccess ==
    result = Value(apiArgs.resp.responsedata) /\ lastAnswer.class = "success"

\* the call was treated as a failure: it raised the API error, or returned null
\* when throwOnError is false
TreatedAsFailure ==
    /\ lastAnswer.class = "error"
    /\ result = IF apiArgs.throwOnError THEN Throw(Err("call", "api")) ELSE Value(Null)

UpdateCount == Len(SelectSeq(reqs, LAMBDA q : q.action = "updateDnsRecords"))

\* the latest answer is an error status code to the given request
ErrorStatusTo(action) ==
    lastAnswer = [action |-> action, class |-> "error", data |-> Null]

----------------------------------------------------------------------------
(* Session: logout failures, order of the steps of set *)

\* the try block ended by a return or a raise, which finally holds back
HeldOutcome == pending.kind \in {"throw", "value"}

\* C16: whatever the answer to the logout request (success, error status
\* code, HTTP failure, non-JSON body), the outcome of set, get and remove is
\* the one the operation had before logout: a held return value or error is
\* what the caller gets, remove without one returns null, set without one
\* goes on to DNS polling, and no error of the logout request is ever raised.
C16_LogoutNeverDecides ==
    (op \in SessionOps /\ lastAnswer.action = "logout") =>
        /\ (result.kind = "throw" => result.err.from # "logout")
        /\ (HeldOutcome => (pc = "done" /\ result = pending))
        /\ (~HeldOutcome /\ op = "remove" => (pc = "done" /\ result = Value(Null)))
        /\ (~HeldOutcome /\ op \in SetOps =>
               (authLookups + pubLookups > 0 \/ pc \in {"ns", "ns4"}))

\* remove returned null after its update although logout failed at transport
\* level
C16_Witness ==
    /\ op = "remove"
    /\ Returned
    /\ result = Value(Null)
    /\ UpdateCount = 1
    /\ lastAnswer = [action |-> "logout", class |-> "httpError", data |-> Null]

\* the place of a request in the order of the steps of set
StepRank(action) ==
    CASE action = "login" -> 1
      [] action = "infoDnsZone" -> 2
      [] action = "updateDnsRecords" -> 3
      [] action = "logout" -> 4
      [] OTHER -> 0

RequestCount(action) == Len(SelectSeq(reqs, LAMBDA q : q.action = action))

\* set is in its DNS polling phase, or has issued a DNS lookup
DnsPolling ==
    \/ pc \in {"ns", "ns4", "txt", "txtAuth", "txtPub"}
    \/ authLookups + pubLookups > 0
    \/ nsNames # <<>>

\* C17: within one set call the requests go out in the order login, zone
\* probes, record write, logout, each of login, write and logout at most
\* once; no API request follows the logout request; DNS polling (and any TXT
\* lookup) starts only after the logout request was sent and answered.
C17_SetStepOrder ==
    (op \in SetOps) =>
        /\ \A i, j \in 1..Len(reqs) :
               i < j => /\ StepRank(reqs[i].action) > 0
                        /\ StepRank(reqs[i].action) <= StepRank(reqs[j].action)
        /\ RequestCount("login") <= 1
        /\ RequestCount("updateDnsRecords") <= 1
        /\ RequestCount("logout") <= 1
        /\ (RequestCount("logout") = 1 => LastReq.action = "logout")
        /\ (DnsPolling => /\ RequestCount("logout") = 1
                          /\ RequestCount("updateDnsRecords") = 1
                          /\ lastAnswer.action = "logout")

\* set has issued TXT lookups after login, two probes, the write and logout
C17_Witness ==
    /\ op = "set"
    /\ pubLookups = 2
    /\ Len(reqs) = 5
    /\ reqs[1].action = "login"
    /\ reqs[2].action = "infoDnsZone" /\ reqs[3].action = "infoDnsZone"
    /\ reqs[4].action = "updateDnsRecords"
    /\ reqs[5].action = "logout"

----------------------------------------------------------------------------
(* get and remove *)

\* what get returns when the challenge value is observable
TokenObject == Value([type |-> "object", dnsAuthorization |-> dnsAuthorization])

\* the listing get or remove received holds a TXT record of the challenge
ChallengeListed ==
    /\ listing.done
    /\ \E k \in 1..Len(listing.records) :
          /\ listing.records[k].type = "TXT"
          /\ listing.records[k].hostname = hostname
          /\ listing.records[k].destination = dnsAuthorization

C19_NothingToRemove ==
    (op = "remove" /\ listing.done /\ ~ChallengeListed) =>
        /\ UpdateCount = 0
        /\ toDelete = <<>>
        /\ LogoutCount = 1 /\ LastReq.action = "logout"
        /\ (pc = "logout" /\ pending = Value(Null)) \/ (pc = "done" /\ result = Value(Null))

\* remove returned null from a listing of three records, none matching
C19_Witness ==
    /\ op = "remove"
    /\ Returned
    /\ result = Value(Null)
    /\ listing.done /\ Len(listing.records) = 3
    /\ ~ChallengeListed
    /\ UpdateCount = 0
    /\ LogoutCount = 1

\* the update request remove has sent
UpdateReq == SelectSeq(reqs, LAMBDA q : q.action = "updateDnsRecords")[1]

\* the listed records that are TXT records of the challenge
ChallengeRecords ==
    SelectSeq(listing.records,
              LAMBDA r : /\ r.type = "TXT"
                         /\ r.hostname = hostname
                         /\ r.destination = dnsAuthorization)

\* C20: the update remove submits holds exactly the listed records that are
\* TXT records at the resolved relative name with the value dnsAuthorization,
\* each marked deleterecord=true and otherwise as listed; a TXT record at the
\* same name with another value and records of another type or name are not
\* in it.
C20_RemoveDeletesExactMatches ==
    (op = "remove" /\ UpdateCount = 1) =>
        /\ listing.done
        /\ UpdateReq.domainname = rootDomain
        /\ Len(UpdateReq.dnsrecords) = Len(ChallengeRecords)
        /\ \A k \in 1..Len(UpdateReq.dnsrecords) :
              /\ UpdateReq.dnsrecords[k].deleterecord = "true"
              /\ UpdateReq.dnsrecords[k] =
                     [ChallengeRecords[k] EXCEPT !.deleterecord = "true"]
        /\ \A k \in 1..Len(UpdateReq.dnsrecords) :
              /\ UpdateReq.dnsrecords[k].type = "TXT"
              /\ UpdateReq.dnsrecords[k].hostname = hostname
              /\ UpdateReq.dnsrecords[k].destination = dnsAuthorization

\* remove submitted the two matching records of a listing of five
C20_Witness ==
    /\ op = "remove"
    /\ UpdateCount = 1
    /\ Len(listing.records) = 5
    /\ Len(UpdateReq.dnsrecords) = 2
    /\ UpdateReq.dnsrecords[1].id = "1" /\ UpdateReq.dnsrecords[2].id = "4"

----------------------------------------------------------------------------
(* Adapter: the renewal decision *)

\* the decision taken for the k-th configured collection, and what it was
\* taken on: the stored collection as it was before any write of this run
DecidedEvents(k) ==
    SelectSeq(events, LAMBDA e : e.kind = "decide" /\ e.id = config.collections[k].id)
Decided(k) ==
    /\ k \in 1..Len(config.collections)
    /\ Len(DecidedEvents(k)) = 1
    /\ \A n \in 1..Len(events) :
          ~(events[n].kind = "write" /\ events[n].id = config.collections[k].id)
Renew(k) == DecidedEvents(k)[1].create
Keep(k) == ~Renew(k)

Existing(k) == store[k]
Desired(k) == Domains(config.collections[k])
NameSet(names) == {names[n] : n \in 1..Len(names)}

\* the conditions of 'keep', as the renewal rule states them
CertParses(k) == Existing(k).present /\ Existing(k).cert.parses
ExpiryKnown(k) == Existing(k).cert.notAfter.valid
FarFromExpiry(k) ==
    ExpiryKnown(k) /\ Existing(k).cert.notAfter.time - now > renewWindow
CommonNameMatches(k) ==
    Len(Desired(k)) >= 1 /\ Existing(k).cert.commonName = Desired(k)[1]
AltNamesMatch(k) ==
    /\ Existing(k).cert.altNames.isArray
    /\ NameSet(Existing(k).cert.altNames.items) = NameSet(Desired(k))
StagingMatches(k) == Existing(k).staging = config.useStaging

RunCollections == 1..MaxCollections

\* C23: the decision is 'renew' when no collection is stored, and 'keep'
\* exactly when a collection is stored, its certificate parses, its expiry is
\* more than the renewal window away, its common name matches, its alternative
\* names match the desired domains and its staging flag equals the configured
\* one.
C23_KeepExactlyWhenAllChecksPass ==
    \A k \in RunCollections :
        Decided(k) =>
            (Keep(k) <=> /\ CertParses(k)
                         /\ FarFromExpiry(k)
                         /\ CommonNameMatches(k)
                         /\ AltNamesMatch(k)
                         /\ StagingMatches(k))

\* C24: whenever notAfter - now <= 7 days (the exact boundary and an expired
\* certificate included) the decision is 'renew', even if domains, common
\* name and staging flag all match.
C24_RenewWithinWindow ==
    \A k \in RunCollections :
        (/\ Decided(k)
         /\ CertParses(k)
         /\ ExpiryKnown(k)
         /\ Existing(k).cert.notAfter.time - now <= 604800000) => Renew(k)

\* C25: with every other check passing, the decision is 'keep' exactly when
\* the desired domains and the certificate's alternative names hold the same
\* set of names, whatever their order and however often a name is repeated.
C25_AltNamesComparedAsSets ==
    \A k \in RunCollections :
        (/\ Decided(k)
         /\ CertParses(k)
         /\ FarFromExpiry(k)
         /\ CommonNameMatches(k)
         /\ Existing(k).cert.commonName = config.collections[k].commonName
         /\ Existing(k).cert.altNames.isArray
         /\ StagingMatches(k)) => (Keep(k) <=> AltNamesMatch(k))

\* C26: with every other check passing, renewal is forced exactly when the
\* certificate's subject common name differs from the first desired domain
\* (the first comma-separated name of the configured commonName, trimmed).
C26_CommonNameIsFirstDomain ==
    \A k \in RunCollections :
        (/\ Decided(k)
         /\ CertParses(k)
         /\ FarFromExpiry(k)
         /\ AltNamesMatch(k)
         /\ _arraysMatch(Arr(Desired(k)), Existing(k).cert.altNames)
         /\ StagingMatches(k)
         /\ Len(Desired(k)) >= 1) => (Renew(k) <=> ~CommonNameMatches(k))

\* C27: the decision is never 'keep' for a stored certificate whose content,
\* its expiry date included, could not be parsed.
C27_UnparsedNeverKept ==
    \A k \in RunCollections :
        (/\ Decided(k)
         /\ Existing(k).present
         /\ (~Existing(k).cert.parses \/ ~ExpiryKnown(k))) => Renew(k)

\* ---------------------------------------------------------------------------
\* Adapter: the loop over the collections and the certificate store

\* the events of one kind and the ids they are about, in order
EventsOf(log, kind) == SelectSeq(log, LAMBDA e : e.kind = kind)
IdsOf(log, kind) == [j \in 1..Len(EventsOf(log, kind)) |-> EventsOf(log, kind)[j].id]
ConfiguredIds(n) == [j \in 1..n |-> config.collections[j].id]
EventsAbout(log) == {log[j] : j \in 1..Len(log)}
EventCount(log, kind, id) ==
    Len(SelectSeq(log, LAMBDA e : e.kind = kind /\ e.id = id))

\* the order of the collection in progress has just been answered by an error
OrderJustRaised ==
    /\ rpc = "order"
    /\ Len(orders') = Len(orders) + 1
    /\ orders'[Len(orders')].answer.raised

\* C28: when the certificate order of a collection raises, the store is left
\* alone and the run goes on with the next collection of the configuration, if
\* there is one, and ends normally otherwise; the collections are decided one
\* at a time in configuration order
C28_OrderFailureSkipsOneCollection ==
    [][/\ OrderJustRaised =>
            /\ store' = store
            /\ ci' = ci + 1
            /\ rpc' = IF ci < Len(config.collections) THEN "read" ELSE "done"
            /\ events' = Append(events, Event("orderFailed", config.collections[ci].id, TRUE))
       /\ rpc' = "read" => IdsOf(events', "decide") = ConfiguredIds(ci' - 1)
       /\ rpc' \in {"order", "save"} => IdsOf(events', "decide") = ConfiguredIds(ci')
      ]_vars

\* the order of the first collection failed and the second was decided after it
C28_Witness ==
    \E i, j \in 1..Len(events) :
        /\ i < j
        /\ events[i] = Event("orderFailed", "c1", TRUE)
        /\ events[j].kind = "decide"
        /\ events[j].id = "c2"

\* the last answer of an order for a collection id, if it was a certificate
\* that parses
IssuedFor(id) ==
    /\ orders # <<>>
    /\ orders[Len(orders)].id = id
    /\ ~orders[Len(orders)].answer.raised
    /\ orders[Len(orders)].answer.cert.parses

\* C29: the stored collection of a collection changes only by the one save of
\* the run for it, which follows an order that returned a certificate that
\* parses; a collection that is kept has no order, and a collection that is
\* kept, whose order raised or whose certificate does not parse has no save
C29_StoreWrittenOnlyAfterIssuance ==
    [][/\ \A k \in 1..Len(store) :
            LET id == config.collections[k].id
            IN  /\ (store'[k] # store[k] \/ EventCount(events', "write", id) > EventCount(events, "write", id)) =>
                    /\ k = ci
                    /\ rpc = "save"
                    /\ IssuedFor(id)
                    /\ EventCount(events, "write", id) = 0
                    /\ EventCount(events', "write", id) = 1
                    /\ store'[k] = Collection(config.useStaging, orders[Len(orders)].answer.cert)
                    /\ \A m \in 1..Len(store) : m # k => store'[m] = store[m]
                /\ (\E e \in EventsAbout(events') : e.kind = "decide" /\ e.id = id /\ ~e.create) =>
                    /\ EventCount(events', "order", id) = 0
                    /\ EventCount(events', "write", id) = 0
                /\ (\E e \in EventsAbout(events') : e.kind \in {"orderFailed", "notSaved"} /\ e.id = id) =>
                    EventCount(events', "write", id) = 0
      ]_vars

\* one run kept a collection, failed to order a second and saved a third
C29_Witness ==
    /\ \E e \in EventsAbout(events) : e.kind = "decide" /\ ~e.create
    /\ \E e \in EventsAbout(events) : e.kind \in {"orderFailed", "notSaved"}
    /\ \E e \in EventsAbout(events) : e.kind = "write"

\* ---------------------------------------------------------------------------
\* Adapter and handler: credentials and the log

\* the non-empty credential values of the configuration and the saved account
Credentials ==
    ({settings[key].text : key \in {KeyCustomerNumber, KeyApiKey, KeyApiPassword}}
        \cup {savedAccount.key}) \ {""}

\* C30: no logged message shows the customer number, the API key, the API
\* password or the private key of the ACME account
C30_NoCredentialLogged ==
    \A j \in 1..Len(logged) : logged[j].shows \cap Credentials = {}

\* ---------------------------------------------------------------------------
\* Challenge handler: sessions of concurrent calls

\* the requests of a call other than its login
SessionRequests(c) == {r \in wire : r.call = c /\ r.action # "login"}

\* C22: a call that has sent a request other than login has logged in itself,
\* each such request carries a session id the server issued to a login of that
\* same call, and no session id appears in the requests of two calls
C22_SessionPerCall ==
    /\ \A r \in wire :
         r.action # "login" =>
            /\ Request(r.call, "login", 0) \in wire
            /\ r.apisessionid \in 1..Len(sessions)
            /\ sessions[r.apisessionid] = r.call
            /\ r.apisessionid = calls[r.call].apisessionid
    /\ \A r1, r2 \in wire :
         (r1.action # "login" /\ r2.action # "login" /\ r1.apisessionid = r2.apisessionid)
            => r1.call = r2.call
    /\ \A c \in DOMAIN calls :
         Cardinality({i \in 1..Len(sessions) : sessions[i] = c}) <= 1

\* a set and a remove have both logged in, the first call to log in wrote
\* after the second had its session, and both have logged out
C22_Witness ==
    /\ Len(calls) = 2
    /\ calls[1].op = "set" /\ calls[2].op = "remove"
    /\ calls[1].apisessionid = 1 /\ calls[2].apisessionid = 2
    /\ Request(1, "updateDnsRecords", 1) \in wire
    /\ Request(2, "updateDnsRecords", 2) \in wire
    /\ Request(1, "logout", 1) \in wire
    /\ Request(2, "logout", 2) \in wire

\* ---------------------------------------------------------------------------
\* Challenge handler: get from set to remove

CycleTokenObject == Value([type |-> "object", dnsAuthorization |-> CycleToken])

\* C21: a get while the record is not visible to the resolver, before
\* propagation or after the removal has taken effect, returns null, and a get
\* whose lookup is answered after set has reported the record confirmed and
\* before remove returns the token object
C21_GetFollowsTheRecord ==
    \A j \in 1..Len(gets) :
        /\ ~gets[j].visible => gets[j].result = Value(Null)
        /\ (gets[j].cycle = "confirmed" /\ gets[j].answered) =>
              gets[j].result = CycleTokenObject

\* ---------------------------------------------------------------------------
\* Zone resolver: the name in an accepted answer

\* the probe answered in this step was accepted
ProbeJustAccepted ==
    /\ pc = "probe"
    /\ Len(probes') = Len(probes) + 1
    /\ probes'[Len(probes')].accepted

\* C31: a candidate is accepted only on an answer that is an object whose
\* name is the probed candidate; an answer naming another zone is not accepted
C31_AcceptedNameIsCandidate ==
    [][ProbeJustAccepted =>
          /\ lastAnswer'.action = "infoDnsZone"
          /\ lastAnswer'.data.type = "object"
          /\ lastAnswer'.data.name = Str(probes'[Len(probes')].candidate)
      ]_vars

\* ---------------------------------------------------------------------------
\* set: the one write

\* the zone findZone returned: the accepted candidate, else the last two labels
FoundZone ==
    IF FellBack THEN LastLabels(dnsHost, 2) ELSE LastProbe.candidate

\* the name of dnsHost relative to the zone findZone returned
FoundName ==
    IF FellBack THEN FallbackName(dnsHost)
    ELSE LeadingLabels(dnsHost, LabelCount(dnsHost) - Len(probes))

\* C32: a set that returned has sent exactly one updateDnsRecords request, to
\* the zone findZone returned, holding exactly one record: a TXT record at the
\* relative name with the challenge value and deleterecord false; it has sent
\* no listing and no other write
C32_SetWritesOneRecord ==
    (op \in SetOps /\ Returned) =>
        /\ RequestCount("updateDnsRecords") = 1
        /\ RequestCount("infoDnsRecords") = 0
        /\ UpdateReq.domainname = FoundZone
        /\ UpdateReq.sid = apisessionid
        /\ UpdateReq.dnsrecords =
              <<[id |-> "undefined", hostname |-> FoundName, type |-> "TXT",
                 destination |-> dnsAuthorization, deleterecord |-> "false"]>>
        /\ \A k \in 1..Len(reqs) :
              reqs[k].action \in {"login", "infoDnsZone", "updateDnsRecords", "logout"}

\* set of a four-label host returned after the second probe was accepted
C32_Witness ==
    /\ op = "set" /\ Returned
    /\ dnsHost = <<"a", Dot, "a", Dot, "b", Dot, "a">>
    /\ Len(probes) = 2 /\ probes[2].accepted
    /\ UpdateReq.domainname = <<"b", Dot, "a">>
    /\ UpdateReq.dnsrecords[1].hostname = <<"a", Dot, "a">>

\* ---------------------------------------------------------------------------
\* Polling: the resolver of the first tier

\* C33: polling always starts with a resolver: the public resolvers when the
\* NS lookup failed or named no nameserver or no nameserver gave an address,
\* the nameservers' addresses otherwise; a failed address lookup leaves the
\* addresses collected so far alone and decides nothing while nameservers are
\* left to ask
C33_ResolverAlwaysBuilt ==
    [][(op \in {"poll", "setBuild"}) =>
          /\ (pc = "ns" /\ pc' # "ns4") =>
                /\ pc' = "txtAuth"
                /\ resolver' = "public"
          /\ pc = "ns4" =>
                /\ nsIps' \in {nsIps, Append(nsIps, Head(nsNames))}
                /\ IF Tail(nsNames) # <<>>
                   THEN pc' = "ns4" /\ resolver' = "none"
                   ELSE /\ pc' = "txtAuth"
                        /\ resolver' = IF nsIps' # <<>> THEN "auth" ELSE "public"
          /\ pc' = "txtAuth" => resolver' \in {"auth", "public"}
      ]_vars

\* of three nameservers asked only the second gave an address, and polling
\* runs on the nameservers
C33_Witness ==
    /\ op = "poll"
    /\ pc = "txtAuth"
    /\ resolver = "auth"
    /\ nsIps = <<"ns2">>

\* ---------------------------------------------------------------------------
\* Polling: the zone whose nameservers are asked

\* C34: the zone whose nameservers are polled for the challenge of a set is
\* the zone the record was written to: the zone pollDns01Challenge computes
\* for dnsHost, and the zone the build's set looks up, are the domainname of
\* the write
C34_PolledZoneIsWrittenZone ==
    /\ (op = "set" /\ RequestCount("updateDnsRecords") = 1) =>
          PollZone(dnsHost) = UpdateReq.domainname
    /\ (op = "setBuild" /\ pc \in {"ns", "ns4", "txtAuth"}) =>
          nsZone = UpdateReq.domainname

\* ---------------------------------------------------------------------------
\* Challenge handler: the zone after concurrent calls

\* a call has returned and each of its API requests was answered with success
Completed(c) == calls[c].pc = "done" /\ calls[c].ok

\* the values of the TXT records at the challenge name
ZoneValues == {r.destination : r \in {q \in zoneRecords : q.hostname = ConcName /\ q.type = "TXT"}}

\* C35: when a set and a remove of different challenges have both completed,
\* the value of the set is in the zone and the value of the remove is not,
\* and the record of another challenge is where it was
C35_NoLostUpdate ==
    \A a, b \in DOMAIN calls :
        (/\ calls[a].op = "set" /\ calls[b].op = "remove"
         /\ Completed(a) /\ Completed(b)) =>
            /\ calls[a].dnsAuthorization \in ZoneValues
            /\ calls[b].dnsAuthorization \notin ZoneValues
            /\ ZoneRecord(0, "stale") \in zoneRecords

\* the remove listed the zone after the set had written, and both completed
C35_Witness ==
    /\ Len(calls) = 2
    /\ calls[1].op = "set" /\ calls[2].op = "remove"
    /\ Completed(1) /\ Completed(2)
    /\ calls[1].apisessionid = 2 /\ calls[2].apisessionid = 1
    /\ Request(2, "updateDnsRecords", 1) \in wire
    /\ ZoneValues = {"tokA", "stale"}

\* ---------------------------------------------------------------------------
\* Adapter: the purge at the end of the run

\* the answer of getAllCollections has just been worked on
PurgeJustDone == rpc = "done" /\ rpc' \in {"terminated", "restore"}

\* C36: the purge deletes no collection whose id is in the configuration, and
\* each collection it deletes is from our namespace and has expired
C36_PurgeSparesConfigured ==
    [][PurgeJustDone =>
          /\ \A k \in 1..Len(store) : store'[k] = store[k]
          /\ \A j \in 1..Len(orphans) :
                (\A m \in 1..Len(orphans') : orphans'[m] # orphans[j]) =>
                    /\ orphans[j].collection.from = namespace
                    /\ Expired(orphans[j].collection, now)
      ]_vars

\* ---------------------------------------------------------------------------
\* Adapter: the adapters on our port

StoppedIds == {e.id : e \in {x \in EventsAbout(events) : x.kind = "stop"}}
ObjectOpsSucceeded == \A e \in EventsAbout(events) : e.kind # "objectError"

\* C37: when the run has terminated with 'Processing complete' and no
\* operation on the object store raised, every instance the run disabled is
\* enabled again and stoppedAdapters is empty; the run never disables our own
\* instance, and it disables none when http-01 is not active
C37_StoppedAdaptersRestored ==
    /\ (rpc = "terminated" /\ ObjectOpsSucceeded) =>
          /\ stoppedAdapters = NoAdapters
          /\ \A j \in 1..Len(instances) :
                instances[j]._id \in StoppedIds => instances[j].enabled
    /\ us \notin StoppedIds
    /\ \A j \in 1..Len(instances) : instances[j]._id = us => instances[j].enabled
    /\ ~config.http01Active => StoppedIds = {}

\* two instances were disabled, generation raised after an order had failed,
\* and the run has terminated
C37_Witness ==
    /\ rpc = "terminated"
    /\ ObjectOpsSucceeded
    /\ Cardinality(StoppedIds) = 2
    /\ \E e \in EventsAbout(events) : e.kind = "orderFailed"
    /\ \E e \in EventsAbout(events) : e.kind = "aborted"

\* ---------------------------------------------------------------------------
\* Adapter: the ACME account

\* C38: the account in use is the saved one only when the saved maintainerEmail
\* is the configured one and the saved useStaging is a boolean equal to the
\* configured flag; when initAcme has ended without raising there is an
\* account, and one that was registered anew is the saved account, stored
\* with the configured email and staging flag
C38_AccountReusedOnlyOnMatch ==
    /\ account.full = "acct-saved" =>
          /\ savedAccount.present
          /\ savedAccount.full = "acct-saved"
          /\ savedAccount.maintainerEmail = settings[KeyEmail]
          /\ savedAccount.useStaging \in {BoolValue(TRUE), BoolValue(FALSE)}
          /\ savedAccount.useStaging = settings[KeyUseStaging]
    /\ lpc = "done" =>
          /\ account.full \in {"acct-saved", "acct-new"}
          /\ account.key # ""
          /\ account.full = "acct-new" =>
                savedAccount = Account(account.key, "acct-new", settings[KeyEmail],
                                       settings[KeyUseStaging])

\* a saved account was read and not taken over, and a new one is stored
C38_Witness ==
    /\ lpc = "done"
    /\ account.full = "acct-new"
    /\ \E j \in 1..Len(logged) : logged[j].text = "Loaded existing ACME account"
    /\ savedAccount.full = "acct-new"

\* ---------------------------------------------------------------------------
\* Challenge handler: create, init and shutdown

\* the values of the three credentials among the options
CredentialOptions ==
    LET options == dns01Options(settings)
    IN  {options[SliceFrom(key, 6)] : key \in {KeyCustomerNumber, KeyApiKey, KeyApiPassword}}

\* C39: create returns a handler exactly when none of customerNumber, apiKey
\* and apiPassword is missing or empty, and the handler offers init, set, get,
\* remove and shutdown; a call of init returns null, and a call of init or
\* shutdown changes nothing, sends no request and makes no lookup
C39_CreateNeedsAllCredentials ==
    [][/\ lpc = "create" =>
            /\ challenge'.created <=> (CredentialOptions \cap {NoValue, StrValue("")} = {})
            /\ challenge'.methods = IF challenge'.created THEN HandlerMethods ELSE {}
            /\ challenge'.returned = <<>>
       /\ challenge'.returned # challenge.returned =>
            LET call == challenge'.returned[Len(challenge'.returned)]
            IN  /\ challenge.created
                /\ challenge' = [challenge EXCEPT !.returned = Append(challenge.returned, call)]
                /\ call.method \in {"init", "shutdown"}
                /\ call.method = "init" => call.value = "null"
                /\ reqs' = <<>>
                /\ authLookups' = 0 /\ pubLookups' = 0
                /\ UNCHANGED <<handlerVars, runVars, concVars, cycleVars>>
                /\ UNCHANGED <<settings, savedAccount, account, lpc, logged>>
      ]_vars

\* the handler was created and its init and its shutdown have been called
C39_Witness ==
    /\ challenge.created
    /\ \E i, j \in 1..Len(challenge.returned) :
          /\ challenge.returned[i].method = "init"
          /\ challenge.returned[j].method = "shutdown"

====
